---- MODULE Spec2Model ----
(***************************************************************************)
(* Persisted state layer of noentropy: the plan cache (storage/cache.rs),  *)
(* the move ledger (undo.rs) and the undo protocol                         *)
(* (files/undo/execution.rs).                                              *)
(*                                                                         *)
(* u64 values are kept as their two's-complement residue: a model integer  *)
(* v >= 0 stands for the u64 v, a model integer v < 0 stands for the u64   *)
(* 2^64 + v.  Wrapping subtraction is then plain subtraction and the       *)
(* unsigned order is U64Less.                                              *)
(***************************************************************************)
EXTENDS Integers, Sequences, FiniteSets, TLC

----------------------------------------------------------------------------
(* Bounds of the model *)

MaxTime == 2        \* clock readings and loaded timestamps range over 0..MaxTime
MaxCap == 2         \* with_max_entries / loaded max_entries range over 0..MaxCap
MaxAge == 2         \* max_age_seconds arguments range over 0..MaxAge and u64::MAX
MaxListLen == 2     \* filename lists given to generate_cache_key have at most this length
MaxStores == 4      \* stores recorded in the store history
MaxLoaded == 2      \* records in a loaded ledger file
MaxIds == 3         \* record ids handed out, loaded records included

(* Program constants *)

DefaultMaxEntries == 1000
Pipe == 124         \* b"|"

U64Max == 0 - 1     \* u64::MAX in the residue encoding

U64Less(a, b) == IF (a >= 0) = (b >= 0) THEN a < b ELSE a >= 0

WrappingSub(a, b) == a - b

Restrict(f, S) == [x \in S |-> f[x]]

----------------------------------------------------------------------------
(* Filenames are byte strings (sequences of byte values). *)

NameA == <<97>>                 \* "a"
NameB == <<98>>                 \* "b"
NameAB == <<97, Pipe, 98>>      \* "a|b"
Names == {NameA, NameB, NameAB}

\* <[u8] as Ord>::lt : lexicographic, a proper prefix is smaller
RECURSIVE BytesLess(_, _)
BytesLess(s, t) ==
    IF t = <<>> THEN FALSE
    ELSE IF s = <<>> THEN TRUE
    ELSE IF Head(s) # Head(t) THEN Head(s) < Head(t)
    ELSE BytesLess(Tail(s), Tail(t))

\* insertion of x into the sorted sequence s, after the elements equal to it
RECURSIVE SortedInsert(_, _)
SortedInsert(x, s) ==
    IF s = <<>> THEN <<x>>
    ELSE IF BytesLess(x, Head(s)) THEN <<x>> \o s
    ELSE <<Head(s)>> \o SortedInsert(x, Tail(s))

\* Vec<String>::sort
RECURSIVE SortNames(_)
SortNames(s) ==
    IF s = <<>> THEN <<>>
    ELSE SortedInsert(s[Len(s)], SortNames(SubSeq(s, 1, Len(s) - 1)))

\* the bytes fed to the hasher: every sorted filename followed by b"|"
RECURSIVE HasherInput(_)
HasherInput(sorted) ==
    IF sorted = <<>> THEN <<>>
    ELSE Head(sorted) \o <<Pipe>> \o HasherInput(Tail(sorted))

\* blake3 digest in hex: an injective function of the bytes hashed
Blake3Hex(bytes) == [blake3 |-> bytes]

generate_cache_key(filenames) == Blake3Hex(HasherInput(SortNames(filenames)))

----------------------------------------------------------------------------
(* State *)

VARIABLES
    entries,          \* Cache.entries : key -> CacheEntry
    max_entries,      \* Cache.max_entries
    check_result,     \* the CacheCheckResult returned by the last check_cache
    cacheOp,          \* the last cache call that returned, with its arguments
    storeLog,         \* keys stored since construction, in call order
    now,              \* SystemTime::now() in seconds
    fs,               \* fs::metadata(base_path.join(name)) : FileMetadata or NoFile
    overflow_checks,  \* build profile: arithmetic overflow panics (debug) or wraps (release)
    aborted,          \* the process panicked
    listA, listB,     \* two filename lists ...
    keyA, keyB,       \* ... and the keys derived from them
    records,          \* UndoLog.entries : Vec<FileMoveRecord>, each with a model-only id
    log_max_entries,  \* UndoLog.max_entries
    ledgerOp,         \* the last ledger call that returned
    nextId,           \* the id the next record gets
    disk,             \* the file at each path: 0 when there is none, else its content
    dirs,             \* the directories that exist under base_path
    undoPc,           \* position of undo_with_strategy: "idle", "loop" or "done"
    pending,          \* the part of completed_moves the loop has not reached yet
    summary,          \* UndoSummary
    outcome,          \* what the loop did with each record and the file it found at the source
    disk0,            \* the disk when the undo started
    cache_file,       \* what is at cache_path
    log_file,         \* what is at undo_log_path
    cacheSaved,       \* the cache the last successful Cache::save wrote, while the file is intact
    logSaved,         \* the ledger the last successful UndoLog::save wrote, while the file is intact
    dropped,          \* the records the last ledger call dropped, in the order dropped
    answer,           \* what the last ledger query returned
    files,            \* duplicate detection: the content of the file at each path, 0 when none
    locked,           \* the files File::open fails on
    dupOp,            \* the last duplicate call, with its arguments and result
    dupPc,            \* position of delete_duplicates: "idle", "loop" or "done"
    dupPending,       \* the files the deletion loop has not reached yet
    attempted,        \* each remove_file call of the loop, with its result, in call order
    files0,           \* the files when delete_duplicates started
    movePc,           \* position of execute_move_with_strategy: "idle", "loop" or "done"
    planItems,        \* the items of plan.files the loop has not reached yet
    moveSummary,      \* MoveSummary
    moveLog,          \* what the loop did with each item
    runPc,            \* position of the handler that is running, "idle" when none is
    runLog,           \* what the handler did and printed, in order
    batches,          \* the batches organize_files_in_batches has not reached yet
    procs,            \* two processes on one ledger file: where each is, and its UndoLog
    saveOrder,        \* the processes whose save has returned, in the order it returned
    execPc,           \* position of execute_delete_duplicates
    listed,           \* the groups print_duplicates printed
    inspectPc,        \* position of the deep inspection: "idle", "joining" or "moving"
    max_concurrent,   \* the permits the semaphore was created with
    permits,          \* the permits the semaphore has left
    tasks,            \* where each sub-category task is
    retryPc,          \* position of send_request_with_retry
    attempts,         \* its local attempts
    base_delay,       \* its local base_delay, in seconds
    retryLog,         \* what each send() it made came back with, in order
    retryResult       \* what it returned

cacheVars == <<entries, max_entries, check_result, cacheOp>>
envVars == <<now, fs, overflow_checks, aborted>>
keyVars == <<listA, listB, keyA, keyB>>
ledgerVars == <<records, log_max_entries, ledgerOp, nextId>>
undoVars == <<disk, dirs, undoPc, pending, summary, outcome, disk0>>
fileVars == <<cache_file, log_file, cacheSaved, logSaved>>
auditVars == <<dropped, answer>>
dupVars == <<files, locked, dupOp, dupPc, dupPending, attempted, files0>>
moveVars == <<movePc, planItems, moveSummary, moveLog>>
runVars == <<runPc, runLog, batches>>
shareVars == <<procs, saveOrder>>
previewVars == <<execPc, listed>>
inspectVars == <<inspectPc, max_concurrent, permits, tasks>>
retryVars == <<retryPc, attempts, base_delay, retryLog, retryResult>>
lateVars == <<shareVars, previewVars, inspectVars, retryVars>>
restVars == <<fileVars, auditVars, dupVars, moveVars, runVars, lateVars>>
vars == <<cacheVars, storeLog, envVars, keyVars, ledgerVars, undoVars, restVars>>

None == "None"
NoFile == [err |-> "NotFound"]     \* a probe that failed
NoKey == [none |-> TRUE]           \* no key derived yet
Plans == {"p1", "p2"}

Meta(s, m) == [size |-> s, modified |-> m]
MetaVals == {Meta(1, 1), Meta(1, 2)}

Range(s) == {s[i] : i \in DOMAIN s}

\* every sequence over S of length 0..n
SeqsUpTo(S, n) == UNION {[1..k -> S] : k \in 0..n}

----------------------------------------------------------------------------
(* Cache (storage/cache.rs) *)

\* Cache::get_file_metadata joined with base_path: Ok(metadata) or Err
get_file_metadata(name) == fs[name]

\* the probes that succeeded, by filename
ProbeAll(filenames) ==
    [n \in {m \in Range(filenames) : get_file_metadata(m) # NoFile} |-> get_file_metadata(n)]

EmptyCache == << >>

with_max_entries(n) == [entries |-> EmptyCache, max_entries |-> n]

CacheNew == with_max_entries(DefaultMaxEntries)

\* check_cache trusting a file the entry recorded no metadata for
check_cache_unrecorded_ok(filenames) ==
    LET file_metadata == ProbeAll(filenames)
        cache_key == generate_cache_key(filenames)
        all_unchanged(entry) ==
            \A i \in DOMAIN filenames :
                \/ filenames[i] \notin DOMAIN entry.file_metadata
                \/ /\ filenames[i] \in DOMAIN file_metadata
                   /\ file_metadata[filenames[i]] = entry.file_metadata[filenames[i]]
    IN  [cached_response |->
            IF cache_key \in DOMAIN entries /\ all_unchanged(entries[cache_key])
            THEN entries[cache_key].response
            ELSE None,
         file_metadata |-> file_metadata]

\* Cache::check_cache : the CacheCheckResult
check_cache(filenames) ==
    LET file_metadata == ProbeAll(filenames)
        cache_key == generate_cache_key(filenames)
        all_unchanged(entry) ==
            \A i \in DOMAIN filenames :
                /\ filenames[i] \in DOMAIN file_metadata
                /\ filenames[i] \in DOMAIN entry.file_metadata
                /\ file_metadata[filenames[i]] = entry.file_metadata[filenames[i]]
    IN  [cached_response |->
            IF cache_key \in DOMAIN entries /\ all_unchanged(entries[cache_key])
            THEN entries[cache_key].response
            ELSE None,
         file_metadata |-> file_metadata]

\* the keys min_by_key(timestamp) can return: HashMap iteration order is arbitrary
OldestKeys(e) ==
    {k \in DOMAIN e : \A j \in DOMAIN e : ~U64Less(e[j].timestamp, e[k].timestamp)}

\* Cache::evict_oldest : the possible maps afterwards
evict_oldest(e) ==
    IF DOMAIN e = {} THEN {e}
    ELSE {Restrict(e, DOMAIN e \ {k}) : k \in OldestKeys(e)}

\* compact_cache with an if in place of the while
compact_cache_once(e, cap) ==
    IF Cardinality(DOMAIN e) > cap THEN evict_oldest(e) ELSE {e}

\* Cache::compact_cache : the possible maps afterwards
RECURSIVE compact_cache(_, _)
compact_cache(e, cap) ==
    IF Cardinality(DOMAIN e) > cap
    THEN UNION {compact_cache(r, cap) : r \in evict_oldest(e)}
    ELSE {e}

\* HashMap::insert
Insert(e, k, v) == [x \in DOMAIN e \cup {k} |-> IF x = k THEN v ELSE e[x]]

\* the tail shared by cache_response and cache_response_with_metadata
InsertAndEvict(filenames, response, file_metadata) ==
    LET cache_key == generate_cache_key(filenames)
        entry == [response |-> response, timestamp |-> now,
                  file_metadata |-> file_metadata]
        inserted == Insert(entries, cache_key, entry)
    IN  /\ entries' \in (IF Cardinality(DOMAIN inserted) > max_entries
                         THEN evict_oldest(inserted)
                         ELSE {inserted})
        /\ cacheOp' = [op |-> "store", filenames |-> filenames]
        /\ UNCHANGED <<max_entries, check_result>>

\* Cache::cache_response
cache_response(filenames, response) ==
    /\ ~aborted
    /\ InsertAndEvict(filenames, response, ProbeAll(filenames))
    /\ UNCHANGED <<envVars>>

\* Cache::cache_response_with_metadata
cache_response_with_metadata(filenames, response, file_metadata) ==
    /\ ~aborted
    /\ InsertAndEvict(filenames, response, file_metadata)
    /\ UNCHANGED <<envVars>>

\* a lookup that drops the entry it found stale
CheckCache_dropping_stale(filenames) ==
    /\ ~aborted
    /\ check_result' = check_cache(filenames)
    /\ cacheOp' = [op |-> "check", filenames |-> filenames]
    /\ entries' = IF check_cache(filenames).cached_response = None
                  THEN Restrict(entries, DOMAIN entries \ {generate_cache_key(filenames)})
                  ELSE entries
    /\ UNCHANGED <<max_entries, envVars>>

\* the check_cache call: &self, only the result is new
CheckCache(filenames) ==
    /\ ~aborted
    /\ check_result' = check_cache(filenames)
    /\ cacheOp' = [op |-> "check", filenames |-> filenames]
    /\ UNCHANGED <<entries, max_entries, envVars>>

\* the retain predicate of cleanup_old_entries
Fresh(entry, current_time, max_age_seconds) ==
    U64Less(WrappingSub(current_time, entry.timestamp), max_age_seconds)

\* current_time - entry.timestamp underflows
Underflows(entry, current_time) == U64Less(current_time, entry.timestamp)

\* Cache::cleanup_old_entries
cleanup_old_entries(max_age_seconds) ==
    LET current_time == now
        retained == Restrict(entries,
                        {k \in DOMAIN entries : Fresh(entries[k], current_time, max_age_seconds)})
        expired == {k \in DOMAIN entries :
                        /\ ~Underflows(entries[k], current_time)
                        /\ ~Fresh(entries[k], current_time, max_age_seconds)}
    IN  /\ ~aborted
        /\ IF overflow_checks /\ \E k \in DOMAIN entries : Underflows(entries[k], current_time)
           THEN \* the subtraction panics inside retain; the entries visited
                \* before it have been filtered already
                /\ \E visited \in SUBSET expired :
                      entries' = Restrict(entries, DOMAIN entries \ visited)
                /\ aborted' = TRUE
                /\ UNCHANGED cacheOp
           ELSE /\ entries' \in (IF Cardinality(DOMAIN retained) > max_entries
                                 THEN compact_cache(retained, max_entries)
                                 ELSE {retained})
                /\ cacheOp' = [op |-> "cleanup", max_age_seconds |-> max_age_seconds]
                /\ UNCHANGED aborted
        /\ UNCHANGED <<max_entries, check_result, now, fs, overflow_checks>>

----------------------------------------------------------------------------
(* Move ledger (undo.rs) *)

BasePath == <<"dl">>
Src1 == <<"dl", "f1">>
Src2 == <<"dl", "f2">>
Src3 == <<"dl", "sub", "f1">>
Dst1 == <<"dl", "Docs", "f1">>
Dst2 == <<"dl", "Pics", "f2">>

\* a directory name that is not valid UTF-8, and a move below it
RawDir == "<FF>"
RawSrc == <<RawDir, "f1">>
RawDst == <<RawDir, "Docs", "f1">>

\* the (source, destination) pairs moves are recorded for; two share Dst1
MovePairs == {<<Src1, Dst1>>, <<Src2, Dst2>>, <<Src3, Dst1>>}

Statuses == {"Completed", "Undone", "Failed"}

log_with_max_entries(n) == [entries |-> << >>, max_entries |-> n]

LogNew == log_with_max_entries(DefaultMaxEntries)

\* Vec::remove
RemoveAt(s, i) == SubSeq(s, 1, i - 1) \o SubSeq(s, i + 1, Len(s))

\* enumerate().min_by_key(timestamp) over the indices I: the first minimum
FirstOldest(rs, I) ==
    CHOOSE i \in I :
        \A j \in I : \/ U64Less(rs[i].timestamp, rs[j].timestamp)
                     \/ (rs[i].timestamp = rs[j].timestamp /\ i <= j)

\* evict_oldest taking the last of the records that tie for the minimum
log_evict_oldest_last_of_ties(rs) ==
    LET undone == {i \in DOMAIN rs : rs[i].status = "Undone"}
        LastOldest(I) ==
            CHOOSE i \in I :
                \A j \in I : \/ U64Less(rs[i].timestamp, rs[j].timestamp)
                             \/ (rs[i].timestamp = rs[j].timestamp /\ i >= j)
    IN  IF undone # {} THEN RemoveAt(rs, LastOldest(undone))
        ELSE IF rs # << >> THEN RemoveAt(rs, LastOldest(DOMAIN rs))
        ELSE rs

\* evict_oldest without the preference for Undone records
log_evict_oldest_any_status(rs) ==
    IF rs # << >> THEN RemoveAt(rs, FirstOldest(rs, DOMAIN rs)) ELSE rs

\* UndoLog::evict_oldest
log_evict_oldest(rs) ==
    LET undone == {i \in DOMAIN rs : rs[i].status = "Undone"}
    IN  IF undone # {} THEN RemoveAt(rs, FirstOldest(rs, undone))
        ELSE IF rs # << >> THEN RemoveAt(rs, FirstOldest(rs, DOMAIN rs))
        ELSE rs

\* UndoLog::compact_log
RECURSIVE compact_log(_, _)
compact_log(rs, cap) ==
    IF Len(rs) > cap THEN compact_log(log_evict_oldest(rs), cap) ELSE rs

\* the body shared by record_move and record_failed_move
PushAndEvict(source_path, destination_path, status) ==
    LET record == [id |-> nextId, source_path |-> source_path,
                   destination_path |-> destination_path,
                   timestamp |-> now, status |-> status]
        pushed == Append(records, record)
    IN  /\ records' = IF Len(pushed) > log_max_entries
                      THEN log_evict_oldest(pushed) ELSE pushed
        /\ nextId' = nextId + 1
        /\ UNCHANGED log_max_entries

\* UndoLog::record_move
record_move(source_path, destination_path) ==
    /\ ~aborted
    /\ undoPc # "loop"
    /\ PushAndEvict(source_path, destination_path, "Completed")
    /\ ledgerOp' = [op |-> "record_move", id |-> nextId]

\* UndoLog::record_failed_move
record_failed_move(source_path, destination_path) ==
    /\ ~aborted
    /\ undoPc # "loop"
    /\ PushAndEvict(source_path, destination_path, "Failed")
    /\ ledgerOp' = [op |-> "record_failed_move", id |-> nextId]

IsCompleted(r) == r.status = "Completed"

\* get_completed_moves answering with the newest record first
get_completed_moves_newest_first(rs) ==
    LET completed == SelectSeq(rs, IsCompleted)
    IN  [k \in DOMAIN completed |-> completed[Len(completed) + 1 - k]]

\* UndoLog::get_completed_moves
get_completed_moves(rs) == SelectSeq(rs, IsCompleted)

\* UndoLog::get_completed_count
get_completed_count(rs) == Cardinality({i \in DOMAIN rs : rs[i].status = "Completed"})

\* mark_as_undone without the break that ends the loop at the first match
mark_as_undone_every_match(rs, path) ==
    [i \in DOMAIN rs |->
        IF rs[i].status = "Completed" /\ rs[i].destination_path = path
        THEN [rs[i] EXCEPT !.status = "Undone"]
        ELSE rs[i]]

\* mark_as_undone comparing its argument with the source of the record
mark_as_undone_by_source(rs, path) ==
    LET hits == {i \in DOMAIN rs :
                    rs[i].status = "Completed" /\ rs[i].source_path = path}
    IN  IF hits = {} THEN rs
        ELSE [rs EXCEPT ![CHOOSE i \in hits : \A j \in hits : i <= j].status = "Undone"]

\* mark_as_undone without the status test
mark_as_undone_any_status(rs, path) ==
    LET hits == {i \in DOMAIN rs : rs[i].destination_path = path}
    IN  IF hits = {} THEN rs
        ELSE [rs EXCEPT ![CHOOSE i \in hits : \A j \in hits : i <= j].status = "Undone"]

\* UndoLog::mark_as_undone : the entries afterwards
mark_as_undone(rs, path) ==
    LET hits == {i \in DOMAIN rs :
                    rs[i].status = "Completed" /\ rs[i].destination_path = path}
    IN  IF hits = {} THEN rs
        ELSE [rs EXCEPT ![CHOOSE i \in hits : \A j \in hits : i <= j].status = "Undone"]

\* a call of mark_as_undone from outside the undo loop
MarkAsUndoneCall(path) ==
    /\ ~aborted
    /\ undoPc # "loop"
    /\ records' = mark_as_undone(records, path)
    /\ ledgerOp' = [op |-> "mark_as_undone", path |-> path]
    /\ UNCHANGED <<log_max_entries, nextId>>

\* the retain predicate without the exemption of Completed records
LogKeeps_by_age_only(r, current_time, max_age_seconds) ==
    U64Less(WrappingSub(current_time, r.timestamp), max_age_seconds)

\* a retain predicate that keeps a record through the second its age reaches
\* the threshold
LogKeeps_through_threshold(r, current_time, max_age_seconds) ==
    \/ ~U64Less(max_age_seconds, WrappingSub(current_time, r.timestamp))
    \/ r.status = "Completed"

\* the retain predicate of UndoLog::cleanup_old_entries
LogKeeps(r, current_time, max_age_seconds) ==
    \/ U64Less(WrappingSub(current_time, r.timestamp), max_age_seconds)
    \/ r.status = "Completed"

\* Vec::retain over the first n records
RECURSIVE RetainPrefix(_, _, _, _)
RetainPrefix(rs, n, current_time, max_age_seconds) ==
    IF n = 0 THEN << >>
    ELSE RetainPrefix(rs, n - 1, current_time, max_age_seconds)
         \o (IF LogKeeps(rs[n], current_time, max_age_seconds) THEN <<rs[n]>> ELSE << >>)

\* UndoLog::cleanup_old_entries
log_cleanup_old_entries(max_age_seconds) ==
    LET current_time == now
        under == {i \in DOMAIN records : U64Less(current_time, records[i].timestamp)}
        first == CHOOSE i \in under : \A j \in under : i <= j
        retained == RetainPrefix(records, Len(records), current_time, max_age_seconds)
    IN  /\ ~aborted
        /\ undoPc # "loop"
        /\ IF overflow_checks /\ under # {}
           THEN \* the subtraction panics at the first record from the future;
                \* retain has filtered the records before it
                /\ records' = RetainPrefix(records, first - 1, current_time, max_age_seconds)
                              \o SubSeq(records, first, Len(records))
                /\ aborted' = TRUE
                /\ UNCHANGED ledgerOp
           ELSE /\ records' = IF Len(retained) > log_max_entries
                              THEN compact_log(retained, log_max_entries)
                              ELSE retained
                /\ ledgerOp' = [op |-> "cleanup", max_age_seconds |-> max_age_seconds]
                /\ UNCHANGED aborted
        /\ UNCHANGED <<log_max_entries, nextId>>

----------------------------------------------------------------------------
(* Undo protocol (files/undo/execution.rs, cleanup.rs, file_ops.rs) *)

FilePaths == {Src1, Src2, Src3, Dst1, Dst2}

\* Path::parent
Parent(p) == SubSeq(p, 1, Len(p) - 1)

AllDirs == {Parent(p) : p \in FilePaths} \ {BasePath}

\* Path::exists
Exists(p) == disk[p] # 0

\* the directory a new file would go into is there
ParentExists(p) == Parent(p) = BasePath \/ Parent(p) \in dirs

\* Path::strip_prefix(base_path) succeeds
UnderBase(p) == Len(p) >= Len(BasePath) /\ SubSeq(p, 1, Len(BasePath)) = BasePath

\* what the operating system answers to the rename and, across devices, to
\* the copy and the remove_file
IoResults == {"ok", "err", "copied_not_removed"}

\* file_ops::move_file_cross_platform returns Ok
MoveSucceeds(to, io) == io = "ok" /\ ParentExists(to)

\* the disk after move_file_cross_platform(from, to)
DiskAfterMove(from, to, io) ==
    IF MoveSucceeds(to, io) THEN [disk EXCEPT ![to] = disk[from], ![from] = 0]
    ELSE IF io = "copied_not_removed" /\ ParentExists(to)
         THEN [disk EXCEPT ![to] = disk[from]]
    ELSE disk

ZeroSummary == [restored_count |-> 0, skipped_count |-> 0, failed_count |-> 0]

\* undo_with_strategy going on to the confirmation and the loop in a dry run
UndoBegin_ignoring_dry_run(dry_run, confirmed) ==
    LET completed_moves == get_completed_moves(records)
    IN  /\ ~aborted
        /\ undoPc = "idle"
        /\ summary' = ZeroSummary
        /\ outcome' = << >>
        /\ disk0' = disk
        /\ ledgerOp' = [op |-> "undo", dry_run |-> dry_run, confirmed |-> confirmed]
        /\ IF completed_moves = << >> \/ ~confirmed
           THEN undoPc' = "done" /\ pending' = << >>
           ELSE undoPc' = "loop" /\ pending' = completed_moves
        /\ UNCHANGED <<records, log_max_entries, nextId, disk, dirs>>

\* undo_with_strategy up to its loop: snapshot, preview, dry run, confirmation
UndoBegin(dry_run, confirmed) ==
    LET completed_moves == get_completed_moves(records)
    IN  /\ ~aborted
        /\ undoPc = "idle"
        /\ summary' = ZeroSummary
        /\ outcome' = << >>
        /\ disk0' = disk
        /\ ledgerOp' = [op |-> "undo", dry_run |-> dry_run, confirmed |-> confirmed]
        /\ IF completed_moves = << >> \/ dry_run \/ ~confirmed
           THEN undoPc' = "done" /\ pending' = << >>
           ELSE undoPc' = "loop" /\ pending' = completed_moves
        /\ UNCHANGED <<records, log_max_entries, nextId, disk, dirs>>

\* one pass of the loop over completed_moves
UndoRecord(io) ==
    LET record == Head(pending)
        source == record.source_path
        destination == record.destination_path
        done(result) == Append(outcome, [id |-> record.id, result |-> result,
                                         found |-> disk[source]])
    IN  /\ undoPc = "loop"
        /\ pending # << >>
        /\ pending' = Tail(pending)
        /\ IF ~Exists(destination)
           THEN /\ summary' = [summary EXCEPT !.failed_count = @ + 1]
                /\ outcome' = done("missing")
                /\ UNCHANGED <<records, disk>>
           ELSE IF Exists(source)
           THEN /\ summary' = [summary EXCEPT !.skipped_count = @ + 1]
                /\ outcome' = done("skipped")
                /\ UNCHANGED <<records, disk>>
           ELSE /\ disk' = DiskAfterMove(destination, source, io)
                /\ IF MoveSucceeds(source, io)
                   THEN /\ summary' = [summary EXCEPT !.restored_count = @ + 1]
                        /\ records' = mark_as_undone(records, destination)
                        /\ outcome' = done("restored")
                   ELSE /\ summary' = [summary EXCEPT !.failed_count = @ + 1]
                        /\ outcome' = done("move_failed")
                        /\ UNCHANGED records
        /\ UNCHANGED <<log_max_entries, ledgerOp, nextId, dirs, undoPc, disk0>>

\* UndoLog::get_directory_usage : the keys, as full paths
DirectoryUsageKeys(rs) ==
    {Parent(rs[i].destination_path) :
        i \in {j \in DOMAIN rs : rs[j].status = "Completed"
                                 /\ UnderBase(rs[j].destination_path)}}

\* Path::strip_prefix(base_path): the rest of the path, or Err
strip_prefix(path, base_path) ==
    IF Len(path) >= Len(base_path) /\ SubSeq(path, 1, Len(base_path)) = base_path
    THEN [ok |-> TRUE, rel_path |-> SubSeq(path, Len(base_path) + 1, Len(path))]
    ELSE [ok |-> FALSE]

\* Path::to_string_lossy: a component that is not UTF-8 comes out as U+FFFD
to_string_lossy(path) ==
    [i \in DOMAIN path |-> IF path[i] = RawDir THEN "<FFFD>" ELSE path[i]]

\* get_directory_usage counting the records of every status
get_directory_usage_any_status(rs, base_path) ==
    LET counted == {i \in DOMAIN rs :
                       /\ strip_prefix(rs[i].destination_path, base_path).ok
                       /\ strip_prefix(rs[i].destination_path, base_path).rel_path # << >>}
        dir_path(i) ==
            to_string_lossy(Parent(strip_prefix(rs[i].destination_path, base_path).rel_path))
    IN  [d \in {dir_path(i) : i \in counted} |->
            Cardinality({i \in counted : dir_path(i) = d})]

\* UndoLog::get_directory_usage : relative directory -> number of records
get_directory_usage(rs, base_path) ==
    LET counted == {i \in DOMAIN rs :
                       /\ rs[i].status = "Completed"
                       /\ strip_prefix(rs[i].destination_path, base_path).ok
                       /\ strip_prefix(rs[i].destination_path, base_path).rel_path # << >>}
        dir_path(i) ==
            to_string_lossy(Parent(strip_prefix(rs[i].destination_path, base_path).rel_path))
    IN  [d \in {dir_path(i) : i \in counted} |->
            Cardinality({i \in counted : dir_path(i) = d})]

\* the emptiness test left out, as remove_dir_all would have it
IsEmptyDir_unchecked(d) == TRUE

\* read_dir(dir).next().is_none()
IsEmptyDir(d) == \A p \in FilePaths : Parent(p) = d => disk[p] = 0

\* the end of undo_with_strategy: cleanup_empty_directories, then Ok(summary);
\* remove_dir may fail on any of the candidates and the failure is swallowed
UndoFinish ==
    /\ undoPc = "loop"
    /\ pending = << >>
    /\ \E removed \in SUBSET {d \in DirectoryUsageKeys(records) \cap dirs : IsEmptyDir(d)} :
          dirs' = dirs \ removed
    /\ undoPc' = "done"
    /\ UNCHANGED <<ledgerVars, disk, pending, summary, outcome, disk0>>

----------------------------------------------------------------------------
(* Move execution (files/mover/execution.rs, paths.rs) *)

MaxPlan == 3          \* the longest plan executed

\* FileCategory; filename is a path relative to base_path
FileCategory(filename, category, sub_category) ==
    [filename |-> filename, category |-> category, sub_category |-> sub_category]

\* a file, a name that is a directory or nothing, and a file sent to a
\* sub-category
PlanFiles ==
    {FileCategory(<<"f1">>, "Docs", ""), FileCategory(<<"sub">>, "Docs", ""),
     FileCategory(<<"f1">>, "Docs", "x")}

\* Path::join with a relative path
join(base, rel) == base \o rel

\* Path::file_name
file_name(filename) == <<filename[Len(filename)]>>

\* paths::build_target_path
build_target_path(base_path, category, sub_category, filename) ==
    LET final_path == IF sub_category # ""
                      THEN join(join(base_path, <<category>>), <<sub_category>>)
                      ELSE join(base_path, <<category>>)
    IN  join(final_path, file_name(filename))

\* fs::metadata(source): Ok of a regular file, Ok of something else, or Err
SourceKind(source, directories) ==
    IF source \in FilePaths /\ disk[source] # 0 THEN "file"
    ELSE IF source \in directories THEN "other"
    ELSE "missing"

\* which arm of the loop body an item ends in
ItemResult(mkdir, kind, moved) ==
    IF mkdir # "ok" THEN "mkdir_failed"
    ELSE IF kind = "file" THEN (IF moved THEN "moved" ELSE "move_failed")
    ELSE IF kind = "other" THEN "not_a_file"
    ELSE "missing"

\* a loop that records a Failed move for a source that is not there as well
recorded_status_for_every_error(result) ==
    CASE result = "moved" -> "Completed"
      [] result \in {"move_failed", "missing"} -> "Failed"
      [] OTHER -> "none"

\* the status of the record an arm hands to the ledger, "none" when it calls
\* neither record_move nor record_failed_move
recorded_status(result) ==
    CASE result = "moved" -> "Completed"
      [] result = "move_failed" -> "Failed"
      [] OTHER -> "none"

ZeroMoveSummary == [moved_count |-> 0, error_count |-> 0]

\* execute_move_with_strategy up to its loop, with undo_log = Some
MoveBegin(plan, confirmed) ==
    /\ ~aborted
    /\ movePc = "idle"
    /\ moveSummary' = ZeroMoveSummary
    /\ moveLog' = << >>
    /\ IF plan = << >> THEN movePc' = "done" /\ planItems' = << >>
       ELSE IF ~confirmed THEN movePc' = "cancelled" /\ planItems' = << >>
       ELSE movePc' = "loop" /\ planItems' = plan
    /\ UNCHANGED <<ledgerVars, undoVars>>

\* one pass of the loop over plan.files
MoveItem(mkdir, io) ==
    LET item == Head(planItems)
        source == join(BasePath, item.filename)
        final_path == join(BasePath, <<item.category>>)
        target == build_target_path(BasePath, item.category, item.sub_category,
                                    item.filename)
        created == IF mkdir = "ok" THEN dirs \cup {final_path} ELSE dirs
        target_dir_exists == Parent(target) = BasePath \/ Parent(target) \in created
        moved == io = "ok" /\ target_dir_exists
        result == ItemResult(mkdir, SourceKind(source, created), moved)
    IN  /\ ~aborted
        /\ movePc = "loop"
        /\ planItems # << >>
        /\ planItems' = Tail(planItems)
        /\ dirs' = created
        /\ disk' = IF result = "moved"
                   THEN [disk EXCEPT ![target] = disk[source], ![source] = 0]
                   ELSE IF result = "move_failed" /\ io = "copied_not_removed"
                           /\ target_dir_exists
                   THEN [disk EXCEPT ![target] = disk[source]]
                   ELSE disk
        /\ moveSummary' =
              IF result = "moved" THEN [moveSummary EXCEPT !.moved_count = @ + 1]
              ELSE IF result = "not_a_file" THEN moveSummary
              ELSE [moveSummary EXCEPT !.error_count = @ + 1]
        /\ CASE recorded_status(result) = "Completed" -> record_move(source, target)
             [] recorded_status(result) = "Failed" -> record_failed_move(source, target)
             [] OTHER -> UNCHANGED ledgerVars
        /\ moveLog' = Append(moveLog, [source |-> source, target |-> target,
                                       result |-> result])
        /\ UNCHANGED <<movePc, undoPc, pending, summary, outcome, disk0>>

\* the loop is through: Ok(summary)
MoveFinish ==
    /\ movePc = "loop"
    /\ planItems = << >>
    /\ movePc' = "done"
    /\ UNCHANGED <<planItems, moveSummary, moveLog, ledgerVars, undoVars>>

----------------------------------------------------------------------------
(* Environment *)

\* the max_age_seconds arguments tried
Ages == 0..MaxAge \cup {U64Max}

\* a second passes
Tick ==
    /\ ~aborted
    /\ now < MaxTime
    /\ now' = now + 1
    /\ UNCHANGED <<cacheVars, storeLog, fs, overflow_checks, aborted, keyVars, ledgerVars,
                   undoVars, restVars>>

\* a file under base_path is written, replaced or removed
Touch ==
    /\ ~aborted
    /\ \E n \in Names, m \in MetaVals \cup {NoFile} :
          /\ fs[n] # m
          /\ fs' = [fs EXCEPT ![n] = m]
    /\ cacheOp' = [op |-> "touch"]
    /\ UNCHANGED <<entries, max_entries, check_result, storeLog, now, overflow_checks,
                   aborted, keyVars, ledgerVars, undoVars, restVars>>

----------------------------------------------------------------------------
(* Key derivation on its own: two lists, each key derived once *)

KeyLists == SeqsUpTo(Names, MaxListLen)

KeysIdle ==
    /\ listA = << >> /\ listB = << >> /\ keyA = NoKey /\ keyB = NoKey

CacheIdle ==
    /\ entries = EmptyCache
    /\ max_entries = DefaultMaxEntries
    /\ check_result = [cached_response |-> None, file_metadata |-> << >>]
    /\ cacheOp = [op |-> "new"]
    /\ storeLog = << >>

EnvIdle ==
    /\ now = 0
    /\ fs = [n \in Names |-> NoFile]
    /\ overflow_checks = FALSE
    /\ aborted = FALSE

LedgerIdle ==
    /\ records = << >>
    /\ log_max_entries = DefaultMaxEntries
    /\ ledgerOp = [op |-> "new"]
    /\ nextId = 1

UndoIdle ==
    /\ disk = [p \in FilePaths |-> 0]
    /\ dirs = {}
    /\ undoPc = "idle"
    /\ pending = << >>
    /\ summary = ZeroSummary
    /\ outcome = << >>
    /\ disk0 = disk

NoDoc == [kind |-> "absent"]         \* nothing at the path
NoSnapshot == [none |-> TRUE]        \* no intact save to compare a load with

FilesIdle ==
    /\ cache_file = NoDoc /\ log_file = NoDoc
    /\ cacheSaved = NoSnapshot /\ logSaved = NoSnapshot

AuditIdle ==
    /\ dropped = << >>
    /\ answer = [query |-> "none"]

DupIdle ==
    /\ files = << >>
    /\ locked = {}
    /\ dupOp = [op |-> "none"]
    /\ dupPc = "idle"
    /\ dupPending = << >>
    /\ attempted = << >>
    /\ files0 = << >>

MoveIdle ==
    /\ movePc = "idle"
    /\ planItems = << >>
    /\ moveSummary = ZeroMoveSummary
    /\ moveLog = << >>

RunIdle ==
    /\ runPc = "idle"
    /\ runLog = << >>
    /\ batches = << >>

ShareIdle ==
    /\ procs = << >>
    /\ saveOrder = << >>

PreviewIdle ==
    /\ execPc = "idle"
    /\ listed = << >>

InspectIdle ==
    /\ inspectPc = "idle"
    /\ max_concurrent = 0
    /\ permits = 0
    /\ tasks = << >>

NoResult == [none |-> TRUE]

RetryIdle ==
    /\ retryPc = "idle"
    /\ attempts = 0
    /\ base_delay = 0
    /\ retryLog = << >>
    /\ retryResult = NoResult

LateIdle == ShareIdle /\ PreviewIdle /\ InspectIdle /\ RetryIdle

RestIdle == FilesIdle /\ AuditIdle /\ DupIdle /\ MoveIdle /\ RunIdle /\ LateIdle

InitKey ==
    /\ listA \in KeyLists
    /\ listB \in KeyLists
    /\ keyA = NoKey
    /\ keyB = NoKey
    /\ CacheIdle
    /\ EnvIdle
    /\ LedgerIdle
    /\ UndoIdle
    /\ RestIdle

DeriveKeyA ==
    /\ keyA = NoKey
    /\ keyA' = generate_cache_key(listA)
    /\ UNCHANGED <<listA, listB, keyB, cacheVars, storeLog, envVars, ledgerVars, undoVars,
                   restVars>>

DeriveKeyB ==
    /\ keyB = NoKey
    /\ keyB' = generate_cache_key(listB)
    /\ UNCHANGED <<listA, listB, keyA, cacheVars, storeLog, envVars, ledgerVars, undoVars,
                   restVars>>

NextKey == DeriveKeyA \/ DeriveKeyB

SpecKey == InitKey /\ [][NextKey]_vars

\* number of occurrences of x in the list s
Count(s, x) == Cardinality({i \in DOMAIN s : s[i] = x})

SameMultiset(s, t) == \A x \in Range(s) \cup Range(t) : Count(s, x) = Count(t, x)

----------------------------------------------------------------------------
(* The cache under stores, expiry and the clock *)

CacheLists == {<<NameA>>, <<NameB>>, <<NameA, NameB>>, <<NameAB>>}

\* every file is there when the capacity of the cache is exercised
AllPresent == [n \in Names |-> Meta(1, 1)]

\* the entry a store of filenames at time t leaves, all probes succeeding
StoredEntry(filenames, p, t) ==
    [response |-> p, timestamp |-> t,
     file_metadata |-> [n \in Range(filenames) |-> AllPresent[n]]]

LoadLists == {<<NameA>>, <<NameB>>, <<NameA, NameB>>}

\* what serde_json::from_str::<Cache> can return: a file written by an
\* earlier run (any subset of keys, any timestamps) with any max_entries
LoadedCaches ==
    {[entries |-> e, max_entries |-> n] :
        e \in UNION {{[k \in {generate_cache_key(f) : f \in L} |->
                          StoredEntry(CHOOSE f \in L : generate_cache_key(f) = k,
                                      "p1", ts[k])] :
                      ts \in [{generate_cache_key(f) : f \in L} -> 0..MaxTime]} :
                     L \in SUBSET LoadLists},
        n \in 0..MaxCap}

\* Cache::load_or_create : the parsed file, or a new cache
load_or_create == LoadedCaches \cup {CacheNew}

InitCache ==
    /\ \E c \in load_or_create \cup {with_max_entries(n) : n \in 0..MaxCap} :
          /\ entries = c.entries
          /\ max_entries = c.max_entries
    /\ check_result = [cached_response |-> None, file_metadata |-> << >>]
    /\ cacheOp = [op |-> "new"]
    /\ storeLog = << >>
    /\ now \in 0..1
    /\ fs = AllPresent
    /\ overflow_checks \in BOOLEAN
    /\ aborted = FALSE
    /\ KeysIdle
    /\ LedgerIdle
    /\ UndoIdle
    /\ RestIdle

Store ==
    /\ \E f \in CacheLists : cache_response(f, "p1")
    /\ UNCHANGED <<storeLog, keyVars, ledgerVars, undoVars, restVars>>

Cleanup ==
    /\ \E a \in Ages : cleanup_old_entries(a)
    /\ UNCHANGED <<storeLog, keyVars, ledgerVars, undoVars, restVars>>

NextCache == Store \/ Cleanup \/ Tick

SpecCache == InitCache /\ [][NextCache]_vars

----------------------------------------------------------------------------
(* Lookups against a changing directory *)

LookupLists == {<<NameA>>, <<NameA, NameB>>, <<NameAB>>}

InitLookup ==
    /\ \E c \in {CacheNew, with_max_entries(1)} :
          /\ entries = c.entries
          /\ max_entries = c.max_entries
    /\ check_result = [cached_response |-> None, file_metadata |-> << >>]
    /\ cacheOp = [op |-> "new"]
    /\ storeLog = << >>
    /\ now = 0
    /\ fs \in [Names -> {Meta(1, 1), NoFile}]
    /\ overflow_checks = FALSE
    /\ aborted = FALSE
    /\ KeysIdle
    /\ LedgerIdle
    /\ UndoIdle
    /\ RestIdle

LookupStore ==
    /\ \E f \in LookupLists, p \in Plans : cache_response(f, p)
    /\ UNCHANGED <<storeLog, keyVars, ledgerVars, undoVars, restVars>>

\* the caller hands back the metadata check_cache prefetched for the same list
StoreWithMetadata ==
    /\ cacheOp.op = "check"
    /\ \E p \in Plans :
          cache_response_with_metadata(cacheOp.filenames, p, check_result.file_metadata)
    /\ UNCHANGED <<storeLog, keyVars, ledgerVars, undoVars, restVars>>

Check ==
    /\ \E f \in LookupLists : CheckCache(f)
    /\ UNCHANGED <<storeLog, keyVars, ledgerVars, undoVars, restVars>>

NextLookup == LookupStore \/ StoreWithMetadata \/ Check \/ Touch

SpecLookup == InitLookup /\ [][NextLookup]_vars

----------------------------------------------------------------------------
(* Filling a new cache beyond its capacity with lists not stored before *)

EvictLists == {<<NameA>>, <<NameB>>, <<NameA, NameB>>, <<NameAB>>, <<NameA, NameA>>}

InitEvict ==
    /\ \E n \in 0..MaxCap :
          /\ entries = with_max_entries(n).entries
          /\ max_entries = with_max_entries(n).max_entries
    /\ check_result = [cached_response |-> None, file_metadata |-> << >>]
    /\ cacheOp = [op |-> "new"]
    /\ storeLog = << >>
    /\ now = 0
    /\ fs = AllPresent
    /\ overflow_checks \in BOOLEAN
    /\ aborted = FALSE
    /\ KeysIdle
    /\ LedgerIdle
    /\ UndoIdle
    /\ RestIdle

StoreDistinct ==
    /\ Len(storeLog) < MaxStores
    /\ \E f \in EvictLists :
          /\ \A i \in DOMAIN storeLog : ~SameMultiset(storeLog[i], f)
          /\ cache_response(f, "p1")
          /\ storeLog' = Append(storeLog, f)
    /\ UNCHANGED <<keyVars, ledgerVars, undoVars, restVars>>

NextEvict == StoreDistinct \/ Tick

SpecEvict == InitEvict /\ [][NextEvict]_vars

\* the keys of the n lists stored last
LastStored(n) ==
    {generate_cache_key(storeLog[i]) :
        i \in {j \in DOMAIN storeLog : j > Len(storeLog) - n}}

----------------------------------------------------------------------------
(* The ledger under recording, marking, expiry and the clock *)

LedgerPairs == {<<Src1, Dst1>>, <<Src2, Dst2>>}

\* the records a ledger file can hold, numbered in file order
LoadedRecords ==
    UNION {{[i \in 1..n |-> [id |-> i, source_path |-> c[i][1][1],
                             destination_path |-> c[i][1][2],
                             timestamp |-> c[i][2], status |-> c[i][3]]] :
               c \in [1..n -> LedgerPairs \X (0..MaxTime) \X Statuses]} :
           n \in 0..MaxLoaded}

\* what serde_json::from_str::<UndoLog> can return
LoadedLogs ==
    {[entries |-> rs, max_entries |-> n] : rs \in LoadedRecords, n \in 0..MaxCap}

\* UndoLog::load_or_create : the parsed file, or a new log
log_load_or_create == LoadedLogs \cup {LogNew}

InitLedger ==
    /\ \E l \in log_load_or_create \cup {log_with_max_entries(n) : n \in 0..MaxCap} :
          /\ records = l.entries
          /\ log_max_entries = l.max_entries
          /\ nextId = Len(l.entries) + 1
    /\ ledgerOp = [op |-> "new"]
    /\ now \in 0..1
    /\ fs = [n \in Names |-> NoFile]
    /\ overflow_checks \in BOOLEAN
    /\ aborted = FALSE
    /\ CacheIdle
    /\ KeysIdle
    /\ UndoIdle
    /\ RestIdle

ledgerRest == <<cacheVars, storeLog, keyVars, undoVars, restVars>>

RecordMove ==
    /\ nextId <= MaxIds
    /\ \E m \in LedgerPairs : record_move(m[1], m[2])
    /\ UNCHANGED <<envVars, ledgerRest>>

RecordFailedMove ==
    /\ nextId <= MaxIds
    /\ \E m \in LedgerPairs : record_failed_move(m[1], m[2])
    /\ UNCHANGED <<envVars, ledgerRest>>

MarkAsUndone ==
    /\ \E m \in LedgerPairs : MarkAsUndoneCall(m[2])
    /\ UNCHANGED <<envVars, ledgerRest>>

LedgerCleanup ==
    /\ \E a \in Ages : log_cleanup_old_entries(a)
    /\ UNCHANGED <<now, fs, overflow_checks, ledgerRest>>

NextLedger == RecordMove \/ RecordFailedMove \/ MarkAsUndone \/ LedgerCleanup \/ Tick

SpecLedger == InitLedger /\ [][NextLedger]_vars

----------------------------------------------------------------------------
(* An undo run over a loaded ledger and the directory as it is found *)

\* the ledgers an undo run starts from
UndoRecords ==
    UNION {{[i \in 1..n |-> [id |-> i, source_path |-> c[i][1][1],
                             destination_path |-> c[i][1][2],
                             timestamp |-> 0, status |-> c[i][2]]] :
               c \in [1..n -> MovePairs \X Statuses]} :
           n \in 0..MaxLoaded}

\* the content that tells the file first found at p from every other file
ContentAt(p) ==
    CASE p = Src1 -> 1 [] p = Src2 -> 2 [] p = Src3 -> 3 [] p = Dst1 -> 4 [] p = Dst2 -> 5

\* any files, each in a directory that exists
Disks == {d \in [FilePaths -> 0..5] : \A p \in FilePaths : d[p] \in {0, ContentAt(p)}}

InitUndo ==
    /\ records \in UndoRecords
    /\ log_max_entries = DefaultMaxEntries
    /\ nextId = Len(records) + 1
    /\ ledgerOp = [op |-> "new"]
    /\ disk \in Disks
    /\ dirs \in {ds \in SUBSET AllDirs :
                    \A p \in FilePaths : disk[p] # 0 => (Parent(p) = BasePath \/ Parent(p) \in ds)}
    /\ undoPc = "idle"
    /\ pending = << >>
    /\ summary = ZeroSummary
    /\ outcome = << >>
    /\ disk0 = disk
    /\ CacheIdle
    /\ KeysIdle
    /\ EnvIdle
    /\ RestIdle

undoRest == <<cacheVars, storeLog, keyVars, envVars, restVars>>

UndoStart ==
    /\ \E dry_run \in BOOLEAN, confirmed \in BOOLEAN : UndoBegin(dry_run, confirmed)
    /\ UNCHANGED undoRest

UndoStep ==
    /\ \E io \in IoResults : UndoRecord(io)
    /\ UNCHANGED undoRest

UndoEnd ==
    /\ UndoFinish
    /\ UNCHANGED undoRest

NextUndo == UndoStart \/ UndoStep \/ UndoEnd

SpecUndo == InitUndo /\ [][NextUndo]_vars

----------------------------------------------------------------------------
(* Persistence: save and load_or_create of the ledger and of the cache.    *)
(* A JSON document is kept as the tree serde_json writes and reads: numbers *)
(* as decimal digits, strings as their characters, a struct or map as its   *)
(* members by name, a Vec as its items in order.                            *)

\* u64 / usize -> the decimal digits written
RECURSIVE ToDigits(_)
ToDigits(n) == IF n < 10 THEN <<n>> ELSE ToDigits(n \div 10) \o <<n % 10>>

\* decimal digits -> the u64 / usize read
RECURSIVE FromDigits(_)
FromDigits(ds) ==
    IF ds = << >> THEN 0
    ELSE 10 * FromDigits(SubSeq(ds, 1, Len(ds) - 1)) + ds[Len(ds)]

JNum(n) == [j |-> "num", digits |-> ToDigits(n)]
JStr(chars) == [j |-> "str", chars |-> chars]
JArr(items) == [j |-> "arr", items |-> items]
JObj(fields) == [j |-> "obj", fields |-> fields]

\* Path::to_str succeeds
IsUtf8(path) == RawDir \notin Range(path)

\* a path as the string serde writes: the components with separators between
RECURSIVE PathChars(_)
PathChars(path) ==
    IF Len(path) <= 1 THEN path
    ELSE <<Head(path), "/">> \o PathChars(Tail(path))

IsComponent(c) == c # "/"

\* PathBuf::from(String), compared by components
PathFromChars(chars) == SelectSeq(chars, IsComponent)

\* FileMoveRecord serialized with every status written as Completed
record_to_json_flat(r) ==
    JObj([source_path |-> JStr(PathChars(r.source_path)),
          destination_path |-> JStr(PathChars(r.destination_path)),
          timestamp |-> JNum(r.timestamp),
          status |-> JStr(<<"Completed">>)])

\* #[derive(Serialize)] for FileMoveRecord
record_to_json(r) ==
    JObj([source_path |-> JStr(PathChars(r.source_path)),
          destination_path |-> JStr(PathChars(r.destination_path)),
          timestamp |-> JNum(r.timestamp),
          status |-> JStr(<<r.status>>)])

\* #[derive(Serialize)] for UndoLog
log_to_json(log) ==
    JObj([entries |-> JArr([i \in DOMAIN log.entries |-> record_to_json(log.entries[i])]),
          max_entries |-> JNum(log.max_entries)])

\* serde_json::to_string_pretty(self) returns Ok: every path is UTF-8
log_serializes(log) ==
    \A i \in DOMAIN log.entries :
        IsUtf8(log.entries[i].source_path) /\ IsUtf8(log.entries[i].destination_path)

HasFields(v, names) == v.j = "obj" /\ names \subseteq DOMAIN v.fields

\* #[derive(Deserialize)] for FileMoveRecord accepts the value
RecordParses(v) ==
    /\ HasFields(v, {"source_path", "destination_path", "timestamp", "status"})
    /\ v.fields.source_path.j = "str"
    /\ v.fields.destination_path.j = "str"
    /\ v.fields.timestamp.j = "num"
    /\ v.fields.status.j = "str"
    /\ v.fields.status.chars \in {<<st>> : st \in Statuses}

\* serde_json::from_str::<UndoLog> returns Ok
LogParses(doc) ==
    /\ HasFields(doc, {"entries", "max_entries"})
    /\ doc.fields.entries.j = "arr"
    /\ \A i \in DOMAIN doc.fields.entries.items : RecordParses(doc.fields.entries.items[i])
    /\ doc.fields.max_entries.j = "num"

\* the UndoLog read from a document that parses; ids follow the file order
log_from_json(doc) ==
    LET items == doc.fields.entries.items
    IN  [entries |-> [i \in DOMAIN items |->
                        [id |-> i,
                         source_path |-> PathFromChars(items[i].fields.source_path.chars),
                         destination_path |->
                             PathFromChars(items[i].fields.destination_path.chars),
                         timestamp |-> FromDigits(items[i].fields.timestamp.digits),
                         status |-> items[i].fields.status.chars[1]]],
         max_entries |-> FromDigits(doc.fields.max_entries.digits)]

\* what is at a path: nothing, something read_to_string fails on, or text
Unreadable == [kind |-> "unreadable"]
Text(doc) == [kind |-> "text", json |-> doc]

\* text that is not JSON: arbitrary bytes, or a write that stopped half way
Junk == Text([j |-> "junk"])

\* files UndoLog::load_or_create cannot use
LogGarbage ==
    {NoDoc, Unreadable, Junk,
     Text(JStr(<<"x">>)),
     Text(JObj([entries |-> JArr(<< >>)])),
     Text(JObj([entries |-> JObj(<< >>), max_entries |-> JNum(1)])),
     Text(JObj([entries |->
                   JArr(<<JObj([source_path |-> JStr(PathChars(Src1)),
                               destination_path |-> JStr(PathChars(Dst1)),
                               timestamp |-> JNum(MaxTime),
                               status |-> JStr(<<"Done">>)])>>),
                max_entries |-> JNum(1)]))}

\* UndoLog::load_or_create falling back to a ledger that takes no record
log_load_or_create_at_closed(file) ==
    IF file.kind = "text" /\ LogParses(file.json)
    THEN log_from_json(file.json)
    ELSE log_with_max_entries(0)

\* UndoLog::load_or_create(undo_log_path), given what is at the path
log_load_or_create_at(file) ==
    IF file.kind = "text" /\ LogParses(file.json)
    THEN log_from_json(file.json)
    ELSE LogNew

\* the records numbered by position, as a load numbers them
Renumber(rs) == [i \in DOMAIN rs |-> [rs[i] EXCEPT !.id = i]]

\* what create_dir_all and fs::write answer
SaveResults == {"ok", "mkdir_err", "write_err"}

\* UndoLog::save(undo_log_path)
LogSave(io) ==
    LET self == [entries |-> records, max_entries |-> log_max_entries]
        ok == io = "ok" /\ log_serializes(self)
    IN  /\ ~aborted
        /\ log_file' \in (IF ok THEN {Text(log_to_json(self))}
                          ELSE IF io = "write_err" /\ log_serializes(self)
                               THEN {log_file, Junk}
                          ELSE {log_file})
        /\ logSaved' = IF ok THEN [entries |-> Renumber(records),
                                   max_entries |-> log_max_entries]
                       ELSE IF log_file' = log_file THEN logSaved
                       ELSE NoSnapshot
        /\ ledgerOp' = [op |-> "save", ok |-> ok]
        /\ UNCHANGED <<records, log_max_entries, nextId>>

\* the ledger replaced by UndoLog::load_or_create(undo_log_path)
LogLoad ==
    LET log == log_load_or_create_at(log_file)
    IN  /\ ~aborted
        /\ records' = log.entries
        /\ log_max_entries' = log.max_entries
        /\ nextId' = Len(log.entries) + 1
        /\ ledgerOp' = [op |-> "load"]
        /\ UNCHANGED <<log_file, logSaved>>

\* the opaque plan as JSON
plan_to_json(response) == JStr(<<response>>)

\* #[derive(Serialize)] for FileMetadata
metadata_to_json(m) == JObj([size |-> JNum(m.size), modified |-> JNum(m.modified)])

\* #[derive(Serialize)] for CacheEntry
entry_to_json(entry) ==
    JObj([response |-> plan_to_json(entry.response),
          timestamp |-> JNum(entry.timestamp),
          file_metadata |->
              JObj([n \in DOMAIN entry.file_metadata |->
                       metadata_to_json(entry.file_metadata[n])])])

\* #[derive(Serialize)] for Cache; the map keys are the hex strings themselves
cache_to_json(cache) ==
    JObj([entries |-> JObj([k \in DOMAIN cache.entries |-> entry_to_json(cache.entries[k])]),
          max_entries |-> JNum(cache.max_entries)])

MetadataParses(v) ==
    /\ HasFields(v, {"size", "modified"})
    /\ v.fields.size.j = "num"
    /\ v.fields.modified.j = "num"

EntryParses(v) ==
    /\ HasFields(v, {"response", "timestamp", "file_metadata"})
    /\ v.fields.response.j = "str"
    /\ v.fields.response.chars \in {<<p>> : p \in Plans}
    /\ v.fields.timestamp.j = "num"
    /\ v.fields.file_metadata.j = "obj"
    /\ \A n \in DOMAIN v.fields.file_metadata.fields :
          MetadataParses(v.fields.file_metadata.fields[n])

\* serde_json::from_str::<Cache> returns Ok
CacheParses(doc) ==
    /\ HasFields(doc, {"entries", "max_entries"})
    /\ doc.fields.entries.j = "obj"
    /\ \A k \in DOMAIN doc.fields.entries.fields : EntryParses(doc.fields.entries.fields[k])
    /\ doc.fields.max_entries.j = "num"

\* the Cache read from a document that parses
cache_from_json(doc) ==
    LET map == doc.fields.entries.fields
        meta(v) == Meta(FromDigits(v.fields.size.digits), FromDigits(v.fields.modified.digits))
    IN  [entries |-> [k \in DOMAIN map |->
                        [response |-> map[k].fields.response.chars[1],
                         timestamp |-> FromDigits(map[k].fields.timestamp.digits),
                         file_metadata |->
                             [n \in DOMAIN map[k].fields.file_metadata.fields |->
                                 meta(map[k].fields.file_metadata.fields[n])]]],
         max_entries |-> FromDigits(doc.fields.max_entries.digits)]

\* files Cache::load_or_create cannot use
CacheGarbage ==
    {NoDoc, Unreadable, Junk,
     Text(JStr(<<"x">>)),
     Text(JObj([max_entries |-> JNum(1)])),
     Text(JObj([entries |-> JArr(<< >>), max_entries |-> JNum(1)]))}

\* Cache::load_or_create(cache_path), given what is at the path
load_or_create_at(file) ==
    IF file.kind = "text" /\ CacheParses(file.json)
    THEN cache_from_json(file.json)
    ELSE CacheNew

\* Cache::save(cache_path)
CacheSave(io) ==
    LET self == [entries |-> entries, max_entries |-> max_entries]
    IN  /\ ~aborted
        /\ cache_file' \in (IF io = "ok" THEN {Text(cache_to_json(self))}
                            ELSE IF io = "write_err" THEN {cache_file, Junk}
                            ELSE {cache_file})
        /\ cacheSaved' = IF io = "ok" THEN self
                         ELSE IF cache_file' = cache_file THEN cacheSaved
                         ELSE NoSnapshot
        /\ cacheOp' = [op |-> "save", ok |-> (io = "ok")]
        /\ UNCHANGED <<entries, max_entries, check_result>>

\* the cache replaced by Cache::load_or_create(cache_path)
CacheLoad ==
    LET cache == load_or_create_at(cache_file)
    IN  /\ ~aborted
        /\ entries' = cache.entries
        /\ max_entries' = cache.max_entries
        /\ cacheOp' = [op |-> "load"]
        /\ UNCHANGED <<check_result, cache_file, cacheSaved>>

----------------------------------------------------------------------------
(* A run that loads, changes and saves one of the two stores.  The cache   *)
(* and the ledger share no state and no file, so a run works on one of     *)
(* them and leaves the other as constructed.                               *)

\* clock readings with one and with two decimal digits
PersistTimes == {MaxTime, 10 + MaxTime}

PersistPairs == {<<Src1, Dst1>>, <<RawSrc, RawDst>>}

PersistLists == {<<NameA>>, <<NameB>>}

LedgerUntouched ==
    /\ ledgerOp.op = "new" /\ records = << >> /\ log_max_entries = DefaultMaxEntries
    /\ log_file = NoDoc

CacheUntouched ==
    /\ cacheOp.op = "new" /\ entries = EmptyCache /\ max_entries = DefaultMaxEntries
    /\ cache_file = NoDoc

InitPersist ==
    /\ \E c \in {CacheNew} \cup {with_max_entries(n) : n \in 1..MaxCap} :
          /\ entries = c.entries
          /\ max_entries = c.max_entries
    /\ check_result = [cached_response |-> None, file_metadata |-> << >>]
    /\ cacheOp = [op |-> "new"]
    /\ storeLog = << >>
    /\ \E l \in {LogNew} \cup {log_with_max_entries(n) : n \in 1..MaxCap} :
          /\ records = l.entries
          /\ log_max_entries = l.max_entries
    /\ ledgerOp = [op |-> "new"]
    /\ nextId = 1
    /\ cache_file \in CacheGarbage
    /\ log_file \in LogGarbage
    /\ cacheSaved = NoSnapshot
    /\ logSaved = NoSnapshot
    /\ LedgerUntouched \/ CacheUntouched
    /\ now \in PersistTimes
    /\ fs = AllPresent
    /\ overflow_checks = FALSE
    /\ aborted = FALSE
    /\ KeysIdle
    /\ UndoIdle
    /\ AuditIdle
    /\ DupIdle
    /\ MoveIdle
    /\ RunIdle
    /\ LateIdle

persistLedgerRest ==
    <<cacheVars, storeLog, envVars, keyVars, undoVars, auditVars, dupVars, moveVars, runVars, lateVars,
      cache_file,
      cacheSaved>>

persistCacheRest ==
    <<storeLog, keyVars, ledgerVars, undoVars, auditVars, dupVars, moveVars, runVars, lateVars,
      log_file, logSaved>>

PersistRecordMove ==
    /\ CacheUntouched
    /\ nextId <= MaxIds
    /\ Len(records) < MaxLoaded
    /\ \E m \in PersistPairs : record_move(m[1], m[2])
    /\ UNCHANGED <<log_file, logSaved, persistLedgerRest>>

PersistRecordFailedMove ==
    /\ CacheUntouched
    /\ nextId <= MaxIds
    /\ Len(records) < MaxLoaded
    /\ \E m \in PersistPairs : record_failed_move(m[1], m[2])
    /\ UNCHANGED <<log_file, logSaved, persistLedgerRest>>

PersistMarkAsUndone ==
    /\ CacheUntouched
    /\ \E m \in PersistPairs : MarkAsUndoneCall(m[2])
    /\ UNCHANGED <<log_file, logSaved, persistLedgerRest>>

PersistLogSave ==
    /\ CacheUntouched
    /\ \E io \in SaveResults : LogSave(io)
    /\ UNCHANGED persistLedgerRest

PersistLogLoad ==
    /\ CacheUntouched
    /\ LogLoad
    /\ UNCHANGED persistLedgerRest

\* the ledger file is removed, made unreadable or overwritten with garbage
LogDamage ==
    /\ CacheUntouched
    /\ log_file' \in LogGarbage \ {log_file}
    /\ logSaved' = NoSnapshot
    /\ ledgerOp' = [op |-> "damage"]
    /\ UNCHANGED <<records, log_max_entries, nextId, persistLedgerRest>>

PersistStore ==
    /\ LedgerUntouched
    /\ \E f \in PersistLists : cache_response(f, "p1")
    /\ UNCHANGED <<cache_file, cacheSaved, persistCacheRest>>

PersistCacheSave ==
    /\ LedgerUntouched
    /\ \E io \in SaveResults : CacheSave(io)
    /\ UNCHANGED <<envVars, persistCacheRest>>

PersistCacheLoad ==
    /\ LedgerUntouched
    /\ CacheLoad
    /\ UNCHANGED <<envVars, persistCacheRest>>

\* the cache file is removed, made unreadable or overwritten with garbage
CacheDamage ==
    /\ LedgerUntouched
    /\ cache_file' \in CacheGarbage \ {cache_file}
    /\ cacheSaved' = NoSnapshot
    /\ cacheOp' = [op |-> "damage"]
    /\ UNCHANGED <<entries, max_entries, check_result, envVars, persistCacheRest>>

NextPersist ==
    \/ PersistRecordMove \/ PersistRecordFailedMove \/ PersistMarkAsUndone
    \/ PersistLogSave \/ PersistLogLoad \/ LogDamage
    \/ PersistStore \/ PersistCacheSave \/ PersistCacheLoad \/ CacheDamage

SpecPersist == InitPersist /\ [][NextPersist]_vars

----------------------------------------------------------------------------
(* The queries of the ledger, between recordings and markings *)

OutDst == <<"mnt", "Docs", "f1">>       \* a destination outside base_path

\* two moves to one destination, a move to a place outside base_path, a move
\* into base_path itself and a record whose destination is base_path
QueryPairs ==
    {<<Src1, Dst1>>, <<Src3, Dst1>>, <<Src2, OutDst>>, <<Src3, Src1>>, <<Src2, BasePath>>}

QueryRecords ==
    UNION {{[i \in 1..n |-> [id |-> i, source_path |-> c[i][1][1],
                             destination_path |-> c[i][1][2],
                             timestamp |-> 0, status |-> c[i][2]]] :
               c \in [1..n -> QueryPairs \X Statuses]} :
           n \in 0..MaxLoaded}

InitQuery ==
    /\ records \in QueryRecords
    /\ log_max_entries \in {DefaultMaxEntries} \cup 1..MaxCap
    /\ Len(records) <= log_max_entries
    /\ nextId = Len(records) + 1
    /\ ledgerOp = [op |-> "new"]
    /\ dropped = << >>
    /\ answer = [query |-> "none"]
    /\ CacheIdle
    /\ KeysIdle
    /\ EnvIdle
    /\ UndoIdle
    /\ FilesIdle
    /\ DupIdle
    /\ MoveIdle
    /\ RunIdle
    /\ LateIdle

queryRest ==
    <<cacheVars, storeLog, envVars, keyVars, undoVars, fileVars, dupVars, moveVars, runVars, lateVars,
      dropped>>

QueryRecordMove ==
    /\ nextId <= MaxIds
    /\ \E m \in QueryPairs : record_move(m[1], m[2])
    /\ answer' = [query |-> "none"]
    /\ UNCHANGED queryRest

QueryRecordFailedMove ==
    /\ nextId <= MaxIds
    /\ \E m \in QueryPairs : record_failed_move(m[1], m[2])
    /\ answer' = [query |-> "none"]
    /\ UNCHANGED queryRest

QueryMarkAsUndone ==
    /\ \E m \in QueryPairs : MarkAsUndoneCall(m[2])
    /\ answer' = [query |-> "none"]
    /\ UNCHANGED queryRest

\* get_completed_moves and get_completed_count : &self
GetCompletedMoves ==
    /\ ~aborted
    /\ answer' = [query |-> "get_completed_moves",
                  moves |-> get_completed_moves(records),
                  count |-> get_completed_count(records)]
    /\ UNCHANGED <<ledgerVars, queryRest>>

\* get_directory_usage(base_path) : &self
GetDirectoryUsage ==
    /\ ~aborted
    /\ answer' = [query |-> "get_directory_usage",
                  usage |-> get_directory_usage(records, BasePath)]
    /\ UNCHANGED <<ledgerVars, queryRest>>

NextQuery ==
    \/ QueryRecordMove \/ QueryRecordFailedMove \/ QueryMarkAsUndone
    \/ GetCompletedMoves \/ GetDirectoryUsage

SpecQuery == InitQuery /\ [][NextQuery]_vars

----------------------------------------------------------------------------
(* What the ledger drops: expiry and eviction, call by call.  The clock has *)
(* reached the latest timestamp of the file, so no age underflows here.    *)

\* the records of before that are not in after, in the order of before
Missing(before, after) ==
    LET gone(r) == \A j \in DOMAIN after : after[j].id # r.id
    IN  SelectSeq(before, gone)

\* n calls of evict_oldest starting from rs: the record each call removed
\* and the entries it was called on
RECURSIVE EvictionTrace(_, _)
EvictionTrace(rs, n) ==
    IF n <= 0 \/ rs = << >> THEN << >>
    ELSE <<[victim |-> Missing(rs, log_evict_oldest(rs))[1], why |-> "capacity", from |-> rs]>>
         \o EvictionTrace(log_evict_oldest(rs), n - 1)

\* the records retain removed
AgeDrops(before, after) ==
    [k \in DOMAIN Missing(before, after) |->
        [victim |-> Missing(before, after)[k], why |-> "age", from |-> before]]

\* FileMoveRecord::new at the end of the ledger
NewRecord(source_path, destination_path, status) ==
    [id |-> nextId, source_path |-> source_path, destination_path |-> destination_path,
     timestamp |-> now, status |-> status]

\* the records a ledger file can hold for one move made again and again
RetentionRecords ==
    UNION {{[i \in 1..n |-> [id |-> i, source_path |-> Src1, destination_path |-> Dst1,
                             timestamp |-> c[i][1], status |-> c[i][2]]] :
               c \in [1..n -> (0..MaxTime) \X Statuses]} :
           n \in 0..MaxLoaded}

InitRetention ==
    /\ records \in RetentionRecords
    /\ log_max_entries \in 0..MaxCap
    /\ nextId = Len(records) + 1
    /\ ledgerOp = [op |-> "new"]
    /\ dropped = << >>
    /\ answer = [query |-> "none"]
    /\ now = MaxTime
    /\ fs = [n \in Names |-> NoFile]
    /\ overflow_checks \in BOOLEAN
    /\ aborted = FALSE
    /\ CacheIdle
    /\ KeysIdle
    /\ UndoIdle
    /\ FilesIdle
    /\ DupIdle
    /\ MoveIdle
    /\ RunIdle
    /\ LateIdle

retentionRest ==
    <<cacheVars, storeLog, keyVars, undoVars, fileVars, dupVars, moveVars, runVars, lateVars, answer>>

RetentionRecordMove ==
    /\ nextId <= MaxIds
    /\ record_move(Src1, Dst1)
    /\ dropped' = EvictionTrace(Append(records, NewRecord(Src1, Dst1, "Completed")),
                                Len(records) + 1 - Len(records'))
    /\ UNCHANGED <<envVars, retentionRest>>

RetentionRecordFailedMove ==
    /\ nextId <= MaxIds
    /\ record_failed_move(Src1, Dst1)
    /\ dropped' = EvictionTrace(Append(records, NewRecord(Src1, Dst1, "Failed")),
                                Len(records) + 1 - Len(records'))
    /\ UNCHANGED <<envVars, retentionRest>>

RetentionMarkAsUndone ==
    /\ MarkAsUndoneCall(Dst1)
    /\ dropped' = << >>
    /\ UNCHANGED <<envVars, retentionRest>>

RetentionCleanup ==
    /\ \E a \in Ages :
          /\ log_cleanup_old_entries(a)
          /\ dropped' =
                IF aborted' THEN AgeDrops(records, records')
                ELSE LET retained == RetainPrefix(records, Len(records), now, a)
                     IN  AgeDrops(records, retained)
                         \o EvictionTrace(retained, Len(retained) - Len(records'))
    /\ UNCHANGED <<now, fs, overflow_checks, retentionRest>>

NextRetention ==
    \/ RetentionRecordMove \/ RetentionRecordFailedMove \/ RetentionMarkAsUndone
    \/ RetentionCleanup

SpecRetention == InitRetention /\ [][NextRetention]_vars

----------------------------------------------------------------------------
(* The start of a run: a store is loaded from the file an earlier run left, *)
(* with whatever max_entries the file names, and cleaned up                 *)

\* the ledgers of moves of one file, with any timestamps and statuses
BoundLogs ==
    {l \in LoadedLogs : \A i \in DOMAIN l.entries : l.entries[i].source_path = Src1}

InitBound ==
    /\ \/ /\ cache_file \in {Text(cache_to_json(c)) : c \in LoadedCaches}
          /\ log_file = NoDoc
       \/ /\ cache_file = NoDoc
          /\ log_file \in {Text(log_to_json(l)) : l \in BoundLogs}
    /\ entries = load_or_create_at(cache_file).entries
    /\ max_entries = load_or_create_at(cache_file).max_entries
    /\ check_result = [cached_response |-> None, file_metadata |-> << >>]
    /\ cacheOp = [op |-> "load"]
    /\ storeLog = << >>
    /\ records = log_load_or_create_at(log_file).entries
    /\ log_max_entries = log_load_or_create_at(log_file).max_entries
    /\ nextId = Len(records) + 1
    /\ ledgerOp = [op |-> "load"]
    /\ cacheSaved = NoSnapshot
    /\ logSaved = NoSnapshot
    /\ now \in 0..MaxTime
    /\ fs = AllPresent
    /\ overflow_checks \in BOOLEAN
    /\ aborted = FALSE
    /\ KeysIdle
    /\ UndoIdle
    /\ AuditIdle
    /\ DupIdle
    /\ MoveIdle
    /\ RunIdle
    /\ LateIdle

\* the cache and the ledger share nothing, so a run cleans up the store it
\* loaded from a file
BoundCleanup == cache_file # NoDoc /\ Cleanup

BoundLedgerCleanup == log_file # NoDoc /\ LedgerCleanup

NextBound == BoundCleanup \/ BoundLedgerCleanup

SpecBound == InitBound /\ [][NextBound]_vars

----------------------------------------------------------------------------
(* The mover executing a plan against a directory *)

MovePlans == SeqsUpTo(PlanFiles, MaxPlan)

InitMove ==
    /\ records = << >>
    /\ log_max_entries \in {DefaultMaxEntries, 1}
    /\ nextId = 1
    /\ ledgerOp = [op |-> "new"]
    /\ disk \in {d \in Disks : d[Src2] = 0 /\ d[Src3] = 0 /\ d[Dst2] = 0}
    /\ dirs \in {ds \in SUBSET AllDirs :
                    \A p \in FilePaths : disk[p] # 0 => (Parent(p) = BasePath \/ Parent(p) \in ds)}
    /\ undoPc = "idle"
    /\ pending = << >>
    /\ summary = ZeroSummary
    /\ outcome = << >>
    /\ disk0 = disk
    /\ MoveIdle
    /\ CacheIdle
    /\ KeysIdle
    /\ EnvIdle
    /\ FilesIdle
    /\ AuditIdle
    /\ DupIdle
    /\ RunIdle
    /\ LateIdle

moveRest == <<cacheVars, storeLog, keyVars, envVars, fileVars, auditVars, dupVars, runVars, lateVars>>

MoveStart ==
    /\ \E plan \in MovePlans, confirmed \in BOOLEAN : MoveBegin(plan, confirmed)
    /\ UNCHANGED moveRest

MoveStep ==
    /\ \E mkdir \in {"ok", "err"}, io \in IoResults : MoveItem(mkdir, io)
    /\ UNCHANGED moveRest

MoveEnd ==
    /\ MoveFinish
    /\ UNCHANGED moveRest

NextMove == MoveStart \/ MoveStep \/ MoveEnd

SpecMove == InitMove /\ [][NextMove]_vars

----------------------------------------------------------------------------
(* The handlers of a process run: cli/orchestrator.rs handle_organization *)
(* and cli/handlers/undo.rs handle_undo.  A process runs one handler once. *)

CACHE_RETENTION_SECONDS == 7 * 24 * 60 * 60

UNDO_LOG_RETENTION_SECONDS == 30 * 24 * 60 * 60

\* something the handler did: a store loaded, a save attempted, a warning
\* printed for a store, the "Dry run mode" notice printed, or the handler's
\* return with Ok or Err
Ev(ev, store, ok) == [ev |-> ev, store |-> store, ok |-> ok]

Return(ok) == Ev("return", "none", ok)

\* the handler returns from where it is
Returns(ok) ==
    /\ runPc' = "returned"
    /\ runLog' = Append(runLog, Return(ok))

\* what no handler touches
runRest == <<storeLog, keyVars, auditVars, dupVars, lateVars>>

\* handle_organization: get_data_dir()?, then Cache::load_or_create
OrgBegin(ok) ==
    /\ runPc = "idle"
    /\ IF ok
       THEN /\ CacheLoad
            /\ runPc' = "org_loaded_cache"
            /\ runLog' = Append(runLog, Ev("load", "cache", TRUE))
       ELSE /\ Returns(FALSE)
            /\ UNCHANGED <<cacheVars, cache_file, cacheSaved>>
    /\ UNCHANGED <<envVars, ledgerVars, undoVars, log_file, logSaved, moveVars, batches,
                   runRest>>

\* cache.cleanup_old_entries(CACHE_RETENTION_SECONDS)
OrgCacheCleanup ==
    /\ runPc = "org_loaded_cache"
    /\ cleanup_old_entries(CACHE_RETENTION_SECONDS)
    /\ runPc' = IF aborted' THEN "panicked" ELSE "org_cleaned_cache"
    /\ UNCHANGED <<ledgerVars, undoVars, fileVars, moveVars, runLog, batches, runRest>>

\* get_undo_log_path()?, then UndoLog::load_or_create
OrgLogLoad(ok) ==
    /\ runPc = "org_cleaned_cache"
    /\ IF ok
       THEN /\ LogLoad
            /\ runPc' = "org_loaded_log"
            /\ runLog' = Append(runLog, Ev("load", "log", TRUE))
       ELSE /\ Returns(FALSE)
            /\ UNCHANGED <<ledgerVars, log_file, logSaved>>
    /\ UNCHANGED <<cacheVars, envVars, undoVars, cache_file, cacheSaved, moveVars, batches,
                   runRest>>

\* undo_log.cleanup_old_entries(UNDO_LOG_RETENTION_SECONDS)
OrgLogCleanup ==
    /\ runPc = "org_loaded_log"
    /\ log_cleanup_old_entries(UNDO_LOG_RETENTION_SECONDS)
    /\ runPc' = IF aborted' THEN "panicked" ELSE "org_cleaned_log"
    /\ UNCHANGED <<cacheVars, now, fs, overflow_checks, undoVars, fileVars, moveVars, runLog,
                   batches, runRest>>

\* validate_and_normalize_path and FileBatch::from_path: an invalid target
\* and a directory without files both end the handler with Ok(());
\* chunks is batch.filenames in chunks of BATCH_SIZE
OrgScan(valid, chunks) ==
    /\ runPc = "org_cleaned_log"
    /\ IF ~valid \/ chunks = << >>
       THEN Returns(TRUE) /\ UNCHANGED batches
       ELSE runPc' = "org_batches" /\ batches' = chunks /\ UNCHANGED runLog
    /\ UNCHANGED <<cacheVars, envVars, ledgerVars, undoVars, fileVars, moveVars, runRest>>

\* one pass of the loop of organize_files_in_batches: organize_files_with_cache
\* answers from the cache, or asks Gemini and stores the plan; an error of
\* the request leaves the loop and handle_organization returns Ok(())
OrgBatch(api) ==
    LET filenames == Head(batches)
        cached_response == check_cache(filenames).cached_response
    IN  /\ runPc = "org_batches"
        /\ batches # << >>
        /\ IF cached_response # None
           THEN /\ batches' = Tail(batches)
                /\ UNCHANGED <<cacheVars, envVars, runPc, runLog>>
           ELSE IF api = "ok"
           THEN /\ cache_response(filenames, "p1")
                /\ batches' = Tail(batches)
                /\ UNCHANGED <<runPc, runLog>>
           ELSE /\ Returns(TRUE)
                /\ UNCHANGED <<cacheVars, envVars, batches>>
        /\ UNCHANGED <<ledgerVars, undoVars, fileVars, moveVars, runRest>>

\* the plan is complete: a dry run skips the moves, else execute_move starts
OrgMoveBegin(dry_run, plan, confirmed) ==
    /\ runPc = "org_batches"
    /\ batches = << >>
    /\ IF dry_run
       THEN /\ runPc' = "org_save_cache"
            /\ runLog' = Append(runLog, Ev("dry_run", "none", TRUE))
            /\ UNCHANGED <<moveVars, ledgerVars, undoVars>>
       ELSE runPc' = "org_moving" /\ MoveBegin(plan, confirmed) /\ UNCHANGED runLog
    /\ UNCHANGED <<cacheVars, envVars, fileVars, batches, runRest>>

\* execute_move: one pass of the loop of execute_move_with_strategy
OrgMoveItem(mkdir, io) ==
    /\ runPc = "org_moving"
    /\ MoveItem(mkdir, io)
    /\ UNCHANGED <<cacheVars, envVars, fileVars, runVars, runRest>>

\* execute_move: the loop is through
OrgMoveFinish ==
    /\ runPc = "org_moving"
    /\ MoveFinish
    /\ UNCHANGED <<cacheVars, envVars, fileVars, runVars, runRest>>

\* execute_move prints the summary or the cancellation and returns nothing
OrgMoved ==
    /\ runPc = "org_moving"
    /\ movePc \in {"done", "cancelled"}
    /\ runPc' = "org_save_cache"
    /\ UNCHANGED <<cacheVars, envVars, ledgerVars, undoVars, fileVars, moveVars, runLog,
                   batches, runRest>>

\* what a save leaves in the log: the attempt, and the warning when it failed
Saved(store, ok) ==
    <<Ev("save", store, ok)>> \o (IF ok THEN << >> ELSE <<Ev("warning", store, FALSE)>>)

\* cache.save with its error returned to the caller of the handler
OrgSaveCache_propagating(io) ==
    /\ runPc = "org_save_cache"
    /\ CacheSave(io)
    /\ IF cacheOp'.ok
       THEN runPc' = "org_save_log" /\ runLog' = runLog \o Saved("cache", TRUE)
       ELSE runPc' = "returned"
            /\ runLog' = runLog \o <<Ev("save", "cache", FALSE), Return(FALSE)>>
    /\ UNCHANGED <<envVars, ledgerVars, undoVars, log_file, logSaved, moveVars, batches,
                   runRest>>

\* if let Err(e) = cache.save(cache_path) { eprintln!("Warning: ...") }
OrgSaveCache(io) ==
    /\ runPc = "org_save_cache"
    /\ CacheSave(io)
    /\ runPc' = "org_save_log"
    /\ runLog' = runLog \o Saved("cache", cacheOp'.ok)
    /\ UNCHANGED <<envVars, ledgerVars, undoVars, log_file, logSaved, moveVars, batches,
                   runRest>>

\* if let Err(e) = undo_log.save(&undo_log_path) { eprintln!(...) }, then Ok(())
OrgSaveLog(io) ==
    /\ runPc = "org_save_log"
    /\ LogSave(io)
    /\ runPc' = "returned"
    /\ runLog' = runLog \o Saved("log", ledgerOp'.ok) \o <<Return(TRUE)>>
    /\ UNCHANGED <<cacheVars, envVars, undoVars, cache_file, cacheSaved, moveVars, batches,
                   runRest>>

\* UndoLog::has_completed_moves
has_completed_moves(rs) == get_completed_count(rs) > 0

\* handle_undo: get_undo_log_path()?, the check that the file exists, then
\* UndoLog::load_or_create
UndoRunBegin(ok) ==
    /\ runPc = "idle"
    /\ IF ~ok
       THEN Returns(FALSE) /\ UNCHANGED <<ledgerVars, log_file, logSaved>>
       ELSE IF log_file = NoDoc
       THEN Returns(TRUE) /\ UNCHANGED <<ledgerVars, log_file, logSaved>>
       ELSE /\ LogLoad
            /\ runPc' = "undo_loaded_log"
            /\ runLog' = Append(runLog, Ev("load", "log", TRUE))
    /\ UNCHANGED <<cacheVars, envVars, undoVars, cache_file, cacheSaved, moveVars, batches,
                   runRest>>

\* a ledger without a completed move and an invalid target both end the
\* handler with Ok(()); else undo_moves starts
UndoRunMoves(valid, dry_run, confirmed) ==
    /\ runPc = "undo_loaded_log"
    /\ IF ~has_completed_moves(records) \/ ~valid
       THEN Returns(TRUE) /\ UNCHANGED <<ledgerVars, undoVars>>
       ELSE /\ runPc' = "undo_undoing"
            /\ UndoBegin(dry_run, confirmed)
            /\ runLog' = IF dry_run THEN Append(runLog, Ev("dry_run", "none", TRUE))
                          ELSE runLog
    /\ UNCHANGED <<cacheVars, envVars, fileVars, moveVars, batches, runRest>>

\* undo_moves: one pass of the loop of undo_with_strategy
UndoRunRecord(io) ==
    /\ runPc = "undo_undoing"
    /\ UndoRecord(io)
    /\ UNCHANGED <<cacheVars, envVars, fileVars, moveVars, runVars, runRest>>

\* undo_moves: the loop is through
UndoRunFinish ==
    /\ runPc = "undo_undoing"
    /\ UndoFinish
    /\ UNCHANGED <<cacheVars, envVars, fileVars, moveVars, runVars, runRest>>

\* undo_moves answers Ok in every case; undo_log.save with its warning, Ok(())
UndoRunSave(io) ==
    /\ runPc = "undo_undoing"
    /\ undoPc = "done"
    /\ LogSave(io)
    /\ runPc' = "returned"
    /\ runLog' = runLog \o Saved("log", ledgerOp'.ok) \o <<Return(TRUE)>>
    /\ UNCHANGED <<cacheVars, envVars, undoVars, cache_file, cacheSaved, moveVars, batches,
                   runRest>>

----------------------------------------------------------------------------
(* One process run over the files an earlier run left *)

\* an early clock reading, and one at each retention period after the
\* stores were written
RunTimes == {MaxTime, CACHE_RETENTION_SECONDS, UNDO_LOG_RETENTION_SECONDS}

\* no cache file, garbage, or the file a run wrote after one store
RunCacheFiles ==
    {NoDoc, Junk,
     Text(cache_to_json([entries |-> (generate_cache_key(<<NameA>>) :>
                                         StoredEntry(<<NameA>>, "p1", 0)),
                         max_entries |-> DefaultMaxEntries]))}

\* no ledger file, or the file a run wrote after one move
RunLogFiles ==
    {NoDoc,
     Text(log_to_json([entries |-> <<[id |-> 1, source_path |-> Src1,
                                      destination_path |-> Dst1, timestamp |-> 0,
                                      status |-> "Completed"]>>,
                       max_entries |-> DefaultMaxEntries]))}

\* the target directory before the move of f1 and after it
RunDisks == {d \in Disks : (d[Src1] = 0) # (d[Dst1] = 0)
                           /\ d[Src2] = 0 /\ d[Src3] = 0 /\ d[Dst2] = 0}

\* batch.filenames in chunks of BATCH_SIZE: no file, one chunk, two chunks
RunChunks == {<< >>, <<<<NameA>>>>, <<<<NameA>>, <<NameB>>>>}

\* the plans Gemini answers with
RunPlans == {plan \in MovePlans : Len(plan) <= 1}

InitRun ==
    /\ CacheIdle
    /\ LedgerIdle
    /\ now \in RunTimes
    /\ fs = AllPresent
    /\ overflow_checks \in BOOLEAN
    /\ aborted = FALSE
    /\ cache_file \in RunCacheFiles
    /\ log_file \in RunLogFiles
    /\ cacheSaved = NoSnapshot
    /\ logSaved = NoSnapshot
    /\ disk \in RunDisks
    /\ dirs = IF disk[Dst1] # 0 THEN {Parent(Dst1)} ELSE {}
    /\ undoPc = "idle"
    /\ pending = << >>
    /\ summary = ZeroSummary
    /\ outcome = << >>
    /\ disk0 = disk
    /\ KeysIdle
    /\ AuditIdle
    /\ DupIdle
    /\ MoveIdle
    /\ RunIdle
    /\ LateIdle

NextRun ==
    \/ \E ok \in BOOLEAN : OrgBegin(ok)
    \/ OrgCacheCleanup
    \/ \E ok \in BOOLEAN : OrgLogLoad(ok)
    \/ OrgLogCleanup
    \/ \E valid \in BOOLEAN, chunks \in RunChunks : OrgScan(valid, chunks)
    \/ \E api \in {"ok", "err"} : OrgBatch(api)
    \/ \E dry_run \in BOOLEAN, plan \in RunPlans, confirmed \in BOOLEAN :
          OrgMoveBegin(dry_run, plan, confirmed)
    \/ \E mkdir \in {"ok", "err"}, io \in IoResults : OrgMoveItem(mkdir, io)
    \/ OrgMoveFinish
    \/ OrgMoved
    \/ \E io \in SaveResults : OrgSaveCache(io)
    \/ \E io \in SaveResults : OrgSaveLog(io)
    \/ \E ok \in BOOLEAN : UndoRunBegin(ok)
    \/ \E valid \in BOOLEAN, dry_run \in BOOLEAN, confirmed \in BOOLEAN :
          UndoRunMoves(valid, dry_run, confirmed)
    \/ \E io \in IoResults : UndoRunRecord(io)
    \/ UndoRunFinish
    \/ \E io \in SaveResults : UndoRunSave(io)

SpecRun == InitRun /\ [][NextRun]_vars

----------------------------------------------------------------------------

(* Duplicate detection and deletion: files/duplicate/duplicate_detector.rs *)

MaxContent == 2       \* file contents are 1..MaxContent
MaxInput == 4         \* the longest path list handed to find_duplicates

DupRoot == <<"dl">>
DupPaths == {<<"dl", "a">>, <<"dl", "b">>, <<"dl", "sub", "c">>}
Contents == 1..MaxContent

\* every order a set can be listed in
Orderings(S) == {s \in [1..Cardinality(S) -> S] : Range(s) = S}

\* fs::metadata(file).len(): files of one content have one length
FileLen(content) == content

\* compute_file_hash: Err when File::open or the read fails, else the BLAKE3
\* digest, which is taken to be different for different contents
compute_file_hash(path) ==
    IF files[path] = 0 \/ path \in locked
    THEN [ok |-> FALSE]
    ELSE [ok |-> TRUE, hash |-> [blake3 |-> files[path]]]

\* the HashMap find_duplicates fills: under each hash the paths that have it,
\* in input order
hash_map(paths) ==
    LET hashes == {compute_file_hash(paths[i]).hash :
                      i \in {j \in DOMAIN paths : compute_file_hash(paths[j]).ok}}
    IN  [h \in hashes |->
            SelectSeq(paths, LAMBDA p : compute_file_hash(p).ok /\ compute_file_hash(p).hash = h)]

find_duplicates_keeping_singletons(paths) ==
    LET m == hash_map(paths)
    IN  Orderings({m[h] : h \in DOMAIN m})

\* find_duplicates: the map's values with more than one path; into_values
\* yields them in an order of the HashMap's choosing, so every order is possible
find_duplicates(paths) ==
    LET m == hash_map(paths)
    IN  Orderings({m[h] : h \in {x \in DOMAIN m : Len(m[x]) > 1}})

\* the regular files the WalkDir of delete_duplicates yields below path:
\* all of them, or with max_depth(1) only those directly in it
Walked(path, recursive) ==
    {p \in DupPaths : /\ files[p] # 0
                      /\ SubSeq(p, 1, Len(path)) = path
                      /\ (recursive \/ Len(p) = Len(path) + 1)}

to_delete_all(group) == group

\* the members of a group the loop removes: group[1..]
to_delete(group) == Tail(group)

RECURSIVE Flatten(_)
Flatten(ss) == IF ss = << >> THEN << >> ELSE Head(ss) \o Flatten(Tail(ss))

\* every file the loop will call remove_file on, in the order it will
DeletionPlan(groups) == Flatten([g \in DOMAIN groups |-> to_delete(groups[g])])

NewDuplicateSummary == [total_duplicates |-> 0, total_size_saved |-> 0, error_count |-> 0]

DupFiles == [DupPaths -> 0..MaxContent]

InitDup ==
    /\ files \in DupFiles
    /\ locked \in SUBSET {p \in DupPaths : files[p] # 0}
    /\ dupOp = [op |-> "none"]
    /\ dupPc = "idle"
    /\ dupPending = << >>
    /\ attempted = << >>
    /\ files0 = files
    /\ CacheIdle
    /\ KeysIdle
    /\ EnvIdle
    /\ LedgerIdle
    /\ UndoIdle
    /\ FilesIdle
    /\ AuditIdle
    /\ MoveIdle
    /\ RunIdle
    /\ LateIdle

dupRest ==
    <<cacheVars, storeLog, envVars, keyVars, ledgerVars, undoVars, fileVars, auditVars,
      moveVars, runVars, lateVars>>

\* find_duplicates(paths) on any list of paths, repeated ones included; it
\* changes no file, so a call that follows another one returns what it would
\* have returned in its place and is not taken again
FindDuplicates ==
    /\ dupPc # "loop"
    /\ dupOp.op # "find_duplicates"
    /\ \E paths \in SeqsUpTo(DupPaths, MaxInput) :
       \E groups \in find_duplicates(paths) :
           dupOp' = [op |-> "find_duplicates", paths |-> paths, groups |-> groups]
    /\ dupPc' = "idle"
    /\ dupPending' = << >>
    /\ attempted' = << >>
    /\ files0' = files
    /\ UNCHANGED <<files, locked, dupRest>>

\* delete_duplicates up to its loop: the walk, whose error ends the call
\* before anything is removed, then find_duplicates on what the walk listed
DeleteBegin ==
    /\ dupPc # "loop"
    /\ \E recursive \in BOOLEAN, walk_ok \in BOOLEAN :
       IF ~walk_ok
       THEN /\ dupOp' = [op |-> "delete_duplicates", recursive |-> recursive,
                         result |-> "Err", file_paths |-> << >>, groups |-> << >>,
                         summary |-> NewDuplicateSummary]
            /\ dupPc' = "done"
            /\ dupPending' = << >>
       ELSE \E file_paths \in Orderings(Walked(DupRoot, recursive)) :
            \E groups \in find_duplicates(file_paths) :
                /\ dupOp' = [op |-> "delete_duplicates", recursive |-> recursive,
                             result |-> "Ok", file_paths |-> file_paths, groups |-> groups,
                             summary |-> NewDuplicateSummary]
                /\ dupPc' = IF groups = << >> THEN "done" ELSE "loop"
                /\ dupPending' = DeletionPlan(groups)
    /\ attempted' = << >>
    /\ files0' = files
    /\ UNCHANGED <<files, locked, dupRest>>

\* one pass of the inner loop: remove_file on the next file; when it succeeds
\* the summary counts it and fs::metadata is asked for the length of the path
\* just removed, which fails, so size_saved is not called; when it fails the
\* error is printed and the loop goes on
DeleteStep ==
    /\ dupPc = "loop"
    /\ dupPending # << >>
    /\ LET file == Head(dupPending)
       IN  \E io \in {"ok", "err"} :
             /\ io = "ok" => files[file] # 0
             /\ IF io = "ok"
                THEN /\ files' = [files EXCEPT ![file] = 0]
                     /\ locked' = locked \ {file}
                     /\ dupOp' = [dupOp EXCEPT !.summary.total_duplicates = @ + 1]
                ELSE UNCHANGED <<files, locked, dupOp>>
             /\ attempted' = Append(attempted,
                    [file |-> file, removed |-> io = "ok", len |-> FileLen(files[file])])
    /\ dupPending' = Tail(dupPending)
    /\ UNCHANGED <<dupPc, files0, dupRest>>

\* the loop is through: Ok(summary)
DeleteEnd ==
    /\ dupPc = "loop"
    /\ dupPending = << >>
    /\ dupPc' = "done"
    /\ UNCHANGED <<files, locked, dupOp, dupPending, attempted, files0, dupRest>>

NextDup == FindDuplicates \/ DeleteBegin \/ DeleteStep \/ DeleteEnd

SpecDup == InitDup /\ [][NextDup]_vars

----------------------------------------------------------------------------
(* execute_delete_duplicates: the preview, the confirmation and the deletion, *)
(* in a directory other programs write to                                     *)

previewRest ==
    <<cacheVars, storeLog, envVars, keyVars, ledgerVars, undoVars, fileVars, auditVars,
      moveVars, runVars, shareVars, inspectVars, retryVars>>

\* print_duplicates: the walk, find_duplicates on what it listed, and the
\* groups printed; an error of the walk and Err(NoDuplicate) end
\* execute_delete_duplicates
PreviewScan(recursive, walk_ok) ==
    /\ execPc = "idle"
    /\ IF ~walk_ok
       THEN execPc' = "returned" /\ listed' = [recursive |-> recursive, groups |-> << >>]
       ELSE \E file_paths \in Orderings(Walked(DupRoot, recursive)) :
            \E groups \in find_duplicates(file_paths) :
                /\ listed' = [recursive |-> recursive, groups |-> groups]
                /\ execPc' = IF groups = << >> THEN "returned" ELSE "confirming"
    /\ UNCHANGED <<dupVars, previewRest>>

\* while the user reads the preview another program creates, rewrites or
\* removes a file
Meddle(path, content) ==
    /\ execPc = "confirming"
    /\ files[path] # content
    /\ files' = [files EXCEPT ![path] = content]
    /\ locked' = locked \ {path}
    /\ UNCHANGED <<dupOp, dupPc, dupPending, attempted, files0, previewVars, previewRest>>

\* confirmation.confirm()?
PreviewConfirm(confirmed) ==
    /\ execPc = "confirming"
    /\ execPc' = IF confirmed THEN "deleting" ELSE "returned"
    /\ UNCHANGED <<listed, dupVars, previewRest>>

\* delete_duplicates(&download_path, recursive) up to its loop
PreviewDeleteBegin ==
    /\ execPc = "deleting"
    /\ dupPc = "idle"
    /\ DeleteBegin
    /\ dupOp'.recursive = listed.recursive

PreviewDeleteStep == execPc = "deleting" /\ DeleteStep

PreviewDeleteEnd == execPc = "deleting" /\ DeleteEnd

\* print_duplicate_summary, Ok(summary)
PreviewReturn ==
    /\ execPc = "deleting"
    /\ dupPc = "done"
    /\ execPc' = "returned"
    /\ UNCHANGED <<listed, dupVars, previewRest>>

InitPreview ==
    /\ files \in DupFiles
    /\ locked = {}
    /\ dupOp = [op |-> "none"]
    /\ dupPc = "idle"
    /\ dupPending = << >>
    /\ attempted = << >>
    /\ files0 = files
    /\ PreviewIdle
    /\ CacheIdle
    /\ KeysIdle
    /\ EnvIdle
    /\ LedgerIdle
    /\ UndoIdle
    /\ FilesIdle
    /\ AuditIdle
    /\ MoveIdle
    /\ RunIdle
    /\ ShareIdle
    /\ InspectIdle
    /\ RetryIdle

NextPreview ==
    \/ \E recursive \in BOOLEAN, walk_ok \in BOOLEAN : PreviewScan(recursive, walk_ok)
    \/ \E path \in DupPaths, content \in 0..MaxContent : Meddle(path, content)
    \/ \E confirmed \in BOOLEAN : PreviewConfirm(confirmed)
    \/ PreviewDeleteBegin
    \/ PreviewDeleteStep
    \/ PreviewDeleteEnd
    \/ PreviewReturn

SpecPreview == InitPreview /\ [][NextPreview]_vars

----------------------------------------------------------------------------

(* Two processes on one ledger file.  Each loads the file, records moves  *)
(* in its own UndoLog and saves it; std::fs::write is File::create, which *)
(* truncates the file, followed by write_all from offset 0                *)

Procs == {1, 2}

MaxShareMoves == 2    \* the most moves a process records before it saves

\* the move each process makes
ShareMove(p) == IF p = 1 THEN <<Src1, Dst1>> ELSE <<Src2, Dst2>>

RECURSIVE SumOver(_, _)
SumOver(f, S) ==
    IF S = {} THEN 0
    ELSE LET x == CHOOSE y \in S : TRUE IN f[x] + SumOver(f, S \ {x})

\* the length of the text of a JSON value, each path component and each
\* status counted as one character
RECURSIVE TextLen(_)
TextLen(v) ==
    CASE v.j = "num" -> Len(v.digits)
      [] v.j = "str" -> Len(v.chars) + 2
      [] v.j = "arr" -> 2 + SumOver([i \in DOMAIN v.items |-> TextLen(v.items[i]) + 1],
                                    DOMAIN v.items)
      [] v.j = "obj" -> 2 + SumOver([n \in DOMAIN v.fields |-> TextLen(v.fields[n]) + 4],
                                    DOMAIN v.fields)
      [] v.j = "torn" -> v.len

\* a file of len bytes that is no JSON document: empty, or the text of one
\* document followed by the end of another
Torn(len) == Text([j |-> "torn", len |-> len])

\* the bytes at the path
FileLenAt(file) == IF file.kind = "text" THEN TextLen(file.json) ELSE 0

\* write_all(content) from offset 0 into the file as it is: what was beyond
\* the end of content stays
Overwritten(file, doc) ==
    IF TextLen(doc) >= FileLenAt(file) THEN Text(doc) ELSE Torn(FileLenAt(file))

\* UndoLog::record_move on the UndoLog of a process
recorded(log, source_path, destination_path) ==
    LET record == [id |-> Len(log.entries) + 1, source_path |-> source_path,
                   destination_path |-> destination_path,
                   timestamp |-> now, status |-> "Completed"]
        pushed == Append(log.entries, record)
    IN  [log EXCEPT !.entries = IF Len(pushed) > log.max_entries
                                THEN log_evict_oldest(pushed) ELSE pushed]

shareRest ==
    <<cacheVars, storeLog, envVars, keyVars, ledgerVars, undoVars, auditVars, dupVars,
      moveVars, runVars, previewVars, inspectVars, retryVars, cache_file, cacheSaved,
      logSaved>>

\* UndoLog::load_or_create(undo_log_path) in process p
ShareLoad(p) ==
    /\ procs[p].pc = "start"
    /\ procs' = [procs EXCEPT ![p] = [pc |-> "loaded", moves |-> 0,
                                      log |-> log_load_or_create_at(log_file)]]
    /\ UNCHANGED <<log_file, saveOrder, shareRest>>

\* record_move in process p
ShareRecordMove(p) ==
    /\ procs[p].pc = "loaded"
    /\ procs[p].moves < MaxShareMoves
    /\ procs' = [procs EXCEPT ![p].log = recorded(@, ShareMove(p)[1], ShareMove(p)[2]),
                              ![p].moves = @ + 1]
    /\ UNCHANGED <<log_file, saveOrder, shareRest>>

\* UndoLog::save in process p up to File::create inside fs::write
ShareSaveCreate(p) ==
    /\ procs[p].pc = "loaded"
    /\ procs' = [procs EXCEPT ![p].pc = "writing"]
    /\ log_file' = Torn(0)
    /\ UNCHANGED <<saveOrder, shareRest>>

\* write_all inside fs::write, and Ok(()) from save
ShareSaveWrite(p) ==
    /\ procs[p].pc = "writing"
    /\ procs' = [procs EXCEPT ![p].pc = "saved"]
    /\ log_file' = Overwritten(log_file, log_to_json(procs[p].log))
    /\ saveOrder' = Append(saveOrder, p)
    /\ UNCHANGED shareRest

\* no ledger file, or the file a run wrote after one move
ShareFiles ==
    {NoDoc,
     Text(log_to_json([entries |-> <<[id |-> 1, source_path |-> Src1,
                                      destination_path |-> Dst1, timestamp |-> 0,
                                      status |-> "Completed"]>>,
                       max_entries |-> DefaultMaxEntries]))}

InitShare ==
    /\ procs = [p \in Procs |-> [pc |-> "start", moves |-> 0, log |-> LogNew]]
    /\ saveOrder = << >>
    /\ log_file \in ShareFiles
    /\ cache_file = NoDoc
    /\ cacheSaved = NoSnapshot
    /\ logSaved = NoSnapshot
    /\ now = MaxTime
    /\ fs = [n \in Names |-> NoFile]
    /\ overflow_checks = FALSE
    /\ aborted = FALSE
    /\ CacheIdle
    /\ KeysIdle
    /\ LedgerIdle
    /\ UndoIdle
    /\ AuditIdle
    /\ DupIdle
    /\ MoveIdle
    /\ RunIdle
    /\ PreviewIdle
    /\ InspectIdle
    /\ RetryIdle

NextShare ==
    \/ \E p \in Procs : ShareLoad(p)
    \/ \E p \in Procs : ShareRecordMove(p)
    \/ \E p \in Procs : ShareSaveCreate(p)
    \/ \E p \in Procs : ShareSaveWrite(p)

SpecShare == InitShare /\ [][NextShare]_vars

----------------------------------------------------------------------------

(* The retry loop of the categorisation request: gemini/client.rs *)
(* send_request_with_retry, gemini/errors.rs                      *)

MAX_RETRIES == 3

\* the errors GeminiError::from_response builds from a response that is not
\* a success; NetworkError when the body could not be read
ResponseErrors ==
    {"RateLimitExceeded", "QuotaExceeded", "ModelNotFound", "InvalidApiKey",
     "ContentPolicyViolation", "InvalidRequest", "NetworkError", "ApiError",
     "ServiceUnavailable", "Timeout", "InternalError"}

\* what one send() comes back with: a response that is a success, a
\* response that is an error, or no response
Outcomes ==
    {[kind |-> "success", error |-> "none"], [kind |-> "send_err", error |-> "NetworkError"]}
    \cup {[kind |-> "response", error |-> e] : e \in ResponseErrors}

\* an is_retryable that retries every error
is_retryable_every_error(error) == TRUE

\* GeminiError::is_retryable
is_retryable(error) ==
    error \in {"RateLimitExceeded", "ServiceUnavailable", "Timeout", "NetworkError",
               "InternalError"}

\* the retry_after a RateLimitExceeded carries: from_status_code's 60
RetryAfter == 60

\* GeminiError::retry_delay, in seconds
retry_delay(error) ==
    CASE error = "RateLimitExceeded" -> [some |-> TRUE, secs |-> RetryAfter]
      [] error = "ServiceUnavailable" -> [some |-> TRUE, secs |-> 30]
      [] error = "NetworkError" -> [some |-> TRUE, secs |-> 5]
      [] error = "Timeout" -> [some |-> TRUE, secs |-> 10]
      [] error = "InternalError" -> [some |-> TRUE, secs |-> 15]
      [] OTHER -> [some |-> FALSE]

retryRest ==
    <<cacheVars, storeLog, envVars, keyVars, ledgerVars, undoVars, fileVars, auditVars,
      dupVars, moveVars, runVars, shareVars, previewVars, inspectVars>>

\* the locals of send_request_with_retry before its loop
RetryBegin ==
    /\ retryPc = "idle"
    /\ attempts' = 0
    /\ base_delay' = 2
    /\ retryPc' = "loop"
    /\ UNCHANGED <<retryLog, retryResult, retryRest>>

\* one pass of the loop: attempts += 1, the request, and what the match
\* does with its outcome, up to the sleep or the return
RetrySend(reply) ==
    LET n == attempts + 1
        sleep(delay) ==
            /\ retryLog' = Append(retryLog, [outcome |-> reply, slept |-> delay])
            /\ base_delay' = base_delay * 2
            /\ retryPc' = "sleeping"
            /\ UNCHANGED retryResult
        return(result) ==
            /\ retryLog' = Append(retryLog, [outcome |-> reply, slept |-> 0])
            /\ retryResult' = result
            /\ retryPc' = "returned"
            /\ UNCHANGED base_delay
    IN  /\ retryPc = "loop"
        /\ attempts' = n
        /\ CASE reply.kind = "success" -> return([ok |-> TRUE, error |-> "none"])
             [] reply.kind = "response" ->
                  IF is_retryable(reply.error) /\ n < MAX_RETRIES
                  THEN sleep(IF retry_delay(reply.error).some
                             THEN retry_delay(reply.error).secs ELSE base_delay)
                  ELSE return([ok |-> FALSE, error |-> reply.error])
             [] reply.kind = "send_err" ->
                  IF n < MAX_RETRIES
                  THEN sleep(base_delay)
                  ELSE return([ok |-> FALSE, error |-> "NetworkError"])
        /\ UNCHANGED retryRest

\* tokio::time::sleep(delay) is over: continue
RetryWake ==
    /\ retryPc = "sleeping"
    /\ retryPc' = "loop"
    /\ UNCHANGED <<attempts, base_delay, retryLog, retryResult, retryRest>>

InitRetry ==
    /\ RetryIdle
    /\ CacheIdle
    /\ KeysIdle
    /\ EnvIdle
    /\ LedgerIdle
    /\ UndoIdle
    /\ FilesIdle
    /\ AuditIdle
    /\ DupIdle
    /\ MoveIdle
    /\ RunIdle
    /\ ShareIdle
    /\ PreviewIdle
    /\ InspectIdle

NextRetry ==
    \/ RetryBegin
    \/ \E reply \in Outcomes : RetrySend(reply)
    \/ RetryWake

\* every request completes and every sleep ends
SpecRetry == InitRetry /\ [][NextRetry]_vars /\ WF_vars(NextRetry)

----------------------------------------------------------------------------

(* The deep inspection of an online organise run: handle_online_organization *)
(* (cli/handlers/online.rs 67-106; the same code is in cli/orchestrator.rs)    *)

MaxConcurrent == 2    \* the largest --max-concurrent tried
MaxTasks == 3         \* the most files in a plan under inspection

\* the future built for one file of the plan, before it is first polled
NewTask(is_text) == [pc |-> "start", is_text |-> is_text, output |-> "pending"]

inspectRest ==
    <<cacheVars, storeLog, envVars, keyVars, ledgerVars, undoVars, fileVars, auditVars,
      dupVars, moveVars, runVars, shareVars, previewVars, retryVars>>

\* Semaphore::new(max_concurrent) and one future for each file of the plan;
\* is_text is what is_text_file answers for each
InspectBegin(n, is_text) ==
    /\ inspectPc = "idle"
    /\ inspectPc' = "joining"
    /\ max_concurrent' = n
    /\ permits' = n
    /\ tasks' = [i \in DOMAIN is_text |-> NewTask(is_text[i])]
    /\ UNCHANGED inspectRest

Moved(i, pc) == tasks' = [tasks EXCEPT ![i].pc = pc]

\* the future resolves to a String
Resolved(i, output) == tasks' = [tasks EXCEPT ![i].pc = "done", ![i].output = output]

\* the future's first poll: a file that is no text file resolves to
\* String::new(), a text file goes on to semaphore.acquire()
TaskStart(i) ==
    /\ inspectPc = "joining"
    /\ tasks[i].pc = "start"
    /\ IF tasks[i].is_text THEN Moved(i, "acquiring") ELSE Resolved(i, "")
    /\ UNCHANGED <<inspectPc, max_concurrent, permits, inspectRest>>

\* an acquire that is handed a permit whether one is left or not
TaskAcquire_without_permit(i) ==
    /\ inspectPc = "joining"
    /\ tasks[i].pc = "acquiring"
    /\ permits' = IF permits > 0 THEN permits - 1 ELSE 0
    /\ Moved(i, "holding")
    /\ UNCHANGED <<inspectPc, max_concurrent, inspectRest>>

\* semaphore.acquire().await returns a permit when one is left
TaskAcquire(i) ==
    /\ inspectPc = "joining"
    /\ tasks[i].pc = "acquiring"
    /\ permits > 0
    /\ permits' = permits - 1
    /\ Moved(i, "holding")
    /\ UNCHANGED <<inspectPc, max_concurrent, inspectRest>>

\* read_file_sample: with a sample the request of get_ai_sub_category is
\* sent; without one the future resolves and _permit is dropped
TaskSample(i, sample) ==
    /\ inspectPc = "joining"
    /\ tasks[i].pc = "holding"
    /\ IF sample
       THEN Moved(i, "requesting") /\ UNCHANGED permits
       ELSE Resolved(i, "") /\ permits' = permits + 1
    /\ UNCHANGED <<inspectPc, max_concurrent, inspectRest>>

\* the request completes, with a sub-category or with "General"; the future
\* resolves and _permit is dropped
TaskReply(i, sub_category) ==
    /\ inspectPc = "joining"
    /\ tasks[i].pc = "requesting"
    /\ Resolved(i, sub_category)
    /\ permits' = permits + 1
    /\ UNCHANGED <<inspectPc, max_concurrent, inspectRest>>

\* join_all(tasks).await returns when every future has resolved; the
\* sub-categories are written to the plan and the move phase begins
InspectJoined ==
    /\ inspectPc = "joining"
    /\ \A i \in DOMAIN tasks : tasks[i].pc = "done"
    /\ inspectPc' = "moving"
    /\ UNCHANGED <<max_concurrent, permits, tasks, inspectRest>>

InitInspect ==
    /\ InspectIdle
    /\ CacheIdle
    /\ KeysIdle
    /\ EnvIdle
    /\ LedgerIdle
    /\ UndoIdle
    /\ FilesIdle
    /\ AuditIdle
    /\ DupIdle
    /\ MoveIdle
    /\ RunIdle
    /\ ShareIdle
    /\ PreviewIdle
    /\ RetryIdle

NextInspect ==
    \/ \E n \in 0..MaxConcurrent, is_text \in SeqsUpTo(BOOLEAN, MaxTasks) :
          InspectBegin(n, is_text)
    \/ \E i \in DOMAIN tasks : TaskStart(i)
    \/ \E i \in DOMAIN tasks : TaskAcquire(i)
    \/ \E i \in DOMAIN tasks, sample \in BOOLEAN : TaskSample(i, sample)
    \/ \E i \in DOMAIN tasks, sub_category \in {"General", "Invoices"} :
          TaskReply(i, sub_category)
    \/ InspectJoined

\* join_all polls every future that can go on, and every request completes
SpecInspect == InitInspect /\ [][NextInspect]_vars /\ WF_vars(NextInspect)

----------------------------------------------------------------------------

(* Properties of the cache *)

CacheSize == Cardinality(DOMAIN entries)

\* C1: whenever a store or a cleanup of the cache has returned, the cache
\* holds at most max_entries entries.
CacheCapacityAfterMutation ==
    cacheOp.op \in {"store", "cleanup"} => CacheSize <= max_entries

\* C6: two filename lists get the same key if and only if they are equal as
\* multisets.
KeyIffSameMultiset ==
    (keyA # NoKey /\ keyB # NoKey) => ((keyA = keyB) <=> SameMultiset(listA, listB))

\* the entry under the key of the list is there and every file of the list
\* probes to exactly the metadata the entry recorded for it
Unchanged(filenames) ==
    /\ generate_cache_key(filenames) \in DOMAIN entries
    /\ \A n \in Range(filenames) :
          /\ fs[n] # NoFile
          /\ n \in DOMAIN entries[generate_cache_key(filenames)].file_metadata
          /\ entries[generate_cache_key(filenames)].file_metadata[n] = fs[n]

CheckLeavesCacheUnchanged ==
    [][/\ cacheOp'.op = "check" => (entries' = entries /\ max_entries' = max_entries)
       /\ (cacheOp.op = "check" /\ cacheOp' = cacheOp /\ fs' = fs)
              => check_result' = check_result]_vars

\* a lookup has missed on a stale entry, and the entry is still there
StaleEntryLookedUp ==
    /\ cacheOp.op = "check"
    /\ check_result.cached_response = None
    /\ generate_cache_key(cacheOp.filenames) \in DOMAIN entries

\* C9: after N+k lists not stored before have been stored into a new cache
\* with max_entries = N, exactly N entries remain and they are the N lists
\* stored last.
RetainsMostRecent ==
    (cacheOp.op = "store" /\ Len(storeLog) >= max_entries) =>
        /\ CacheSize = max_entries
        /\ DOMAIN entries = LastStored(max_entries)

\* now - timestamp >= max_age_seconds, in the integers
AgedOut(entry, max_age_seconds) ==
    IF max_age_seconds = U64Max THEN FALSE
    ELSE now - entry.timestamp >= max_age_seconds

\* C10: a cleanup removes every entry whose age is at least max_age_seconds,
\* keeps every younger entry when those fit the capacity, and with
\* max_age_seconds = 0 empties the cache.
ExpiryExact ==
    [][\A a \in Ages :
          cleanup_old_entries(a) =>
              /\ ~aborted'
              /\ \A k \in DOMAIN entries :
                    AgedOut(entries[k], a) => k \notin DOMAIN entries'
              /\ Cardinality({k \in DOMAIN entries : ~AgedOut(entries[k], a)}) <= max_entries
                    => \A k \in DOMAIN entries :
                          ~AgedOut(entries[k], a) => k \in DOMAIN entries'
              /\ a = 0 => entries' = EmptyCache]_vars

\* C25: a check_cache of the list whose store was the last cache call, made
\* while the entry is there and every file the store could probe still has the
\* metadata recorded for it, returns the stored plan, whether or not the store
\* could probe every file of the list.
UnprobedFileDoesNotGate ==
    [][LET filenames == cacheOp.filenames
           cache_key == generate_cache_key(filenames)
       IN  (/\ cacheOp.op = "store"
            /\ cacheOp'.op = "check"
            /\ cacheOp'.filenames = filenames
            /\ cache_key \in DOMAIN entries
            /\ \A n \in DOMAIN entries[cache_key].file_metadata :
                   fs[n] = entries[cache_key].file_metadata[n])
           => check_result'.cached_response = entries[cache_key].response]_vars

\* C27: with max_entries >= 1, when a store has returned, the entry it stored
\* is in the cache under the key of its list.
StoredEntrySurvivesItsStore ==
    (cacheOp.op = "store" /\ max_entries >= 1) =>
        /\ generate_cache_key(cacheOp.filenames) \in DOMAIN entries
        /\ entries[generate_cache_key(cacheOp.filenames)].timestamp = now

----------------------------------------------------------------------------
(* Properties of the ledger *)

\* C2: whenever record_move, record_failed_move, mark_as_undone or a cleanup
\* of the ledger has returned, the ledger holds at most max_entries records.
LedgerCapacityAfterMutation ==
    ledgerOp.op \in {"record_move", "record_failed_move", "mark_as_undone", "cleanup"}
        => Len(records) <= log_max_entries

\* C3: a record enters the ledger as Completed or Failed, and the only change
\* of status a record in the ledger undergoes is Completed -> Undone.
StatusStateMachine ==
    [][/\ \A i \in DOMAIN records : \A j \in DOMAIN records' :
             records[i].id = records'[j].id =>
                 \/ records'[j].status = records[i].status
                 \/ (records[i].status = "Completed" /\ records'[j].status = "Undone")
       /\ \A j \in DOMAIN records' :
             (\A i \in DOMAIN records : records[i].id # records'[j].id)
                 => records'[j].status \in {"Completed", "Failed"}]_vars

\* mark_as_undone has turned a recorded move to Undone next to a Failed
\* record for the same destination
UndoneBesideFailed ==
    /\ ledgerOp.op = "mark_as_undone"
    /\ \E i \in DOMAIN records : \E j \in DOMAIN records :
          /\ records[i].status = "Undone"
          /\ records[j].status = "Failed"
          /\ records[i].destination_path = ledgerOp.path
          /\ records[j].destination_path = ledgerOp.path
          /\ j < i

----------------------------------------------------------------------------
(* Properties of the undo protocol *)

\* the record with the given id
RecordWithId(id) == records[CHOOSE i \in DOMAIN records : records[i].id = id]

\* a confirmed undo, not a dry run, has returned
UndoRan == undoPc = "done" /\ ledgerOp.op = "undo" /\ ~ledgerOp.dry_run /\ ledgerOp.confirmed

\* the undo found one Completed record, its file at the destination and
\* nothing at the source
OneMoveToUndo ==
    /\ UndoRan
    /\ Len(outcome) = 1
    /\ disk0[RecordWithId(outcome[1].id).destination_path] # 0
    /\ disk0[RecordWithId(outcome[1].id).source_path] = 0

\* the file is back at the source, the record is Undone, nothing is left to undo
MoveUndone ==
    LET r == RecordWithId(outcome[1].id)
    IN  /\ disk[r.source_path] = disk0[r.destination_path]
        /\ disk[r.destination_path] = 0
        /\ r.status = "Undone"
        /\ get_completed_moves(records) = << >>

PreconditionFailuresLeaveRecord ==
    UndoRan =>
        /\ Len(outcome) = Cardinality({i \in DOMAIN records : \E k \in DOMAIN outcome :
                                          outcome[k].id = records[i].id})
        /\ summary.skipped_count =
              Cardinality({k \in DOMAIN outcome : outcome[k].result = "skipped"})
        /\ summary.failed_count =
              Cardinality({k \in DOMAIN outcome : outcome[k].result \in {"missing", "move_failed"}})
        /\ \A k \in DOMAIN outcome :
              outcome[k].result \in {"missing", "skipped"} =>
                  RecordWithId(outcome[k].id).status = "Completed"
        /\ \A k \in DOMAIN outcome :
              outcome[k].result = "skipped" =>
                  disk[RecordWithId(outcome[k].id).source_path] = outcome[k].found

\* C17: once a confirmed undo has gone through all records, every directory
\* below base_path that an undone move had put its file into and that is
\* empty on disk has been removed.
EmptyDestinationDirsRemoved ==
    UndoRan =>
        \A k \in DOMAIN outcome :
            outcome[k].result = "restored" =>
                LET dir == Parent(RecordWithId(outcome[k].id).destination_path)
                IN  (UnderBase(dir) /\ dir # BasePath /\ IsEmptyDir(dir)) => dir \notin dirs

\* C24: a pass of the undo loop that moves a file back turns to Undone the
\* record it is processing, the head of pending, and no other record.
UndoMarksTheRecordMovedBack ==
    [][(undoPc = "loop" /\ Len(outcome') = Len(outcome) + 1
            /\ outcome'[Len(outcome')].result = "restored")
        => \A i \in DOMAIN records :
               (records'[i].status # records[i].status)
                   <=> records[i].id = Head(pending).id]_vars

\* C26: when cleanup_old_entries of the cache or of the ledger has returned,
\* the store holds at most max_entries entries, whatever number it was loaded
\* with.
CleanupRestoresBound ==
    /\ cacheOp.op = "cleanup" => Cardinality(DOMAIN entries) <= max_entries
    /\ ledgerOp.op = "cleanup" => Len(records) <= log_max_entries

\* C26 witness: a cache loaded with two entries more than its max_entries of
\* one, none of them old enough to expire, is down to one after the cleanup.
CleanupEvictedTwo ==
    /\ cacheOp.op = "cleanup"
    /\ cacheOp.max_age_seconds = U64Max
    /\ max_entries = 1
    /\ Cardinality(DOMAIN entries) = 1
    /\ LET loaded == load_or_create_at(cache_file).entries
       IN  /\ Cardinality(DOMAIN loaded) = 3
           /\ \A k \in DOMAIN loaded : loaded[k].timestamp <= now

----------------------------------------------------------------------------
(* Properties of persistence *)

\* C11: load_or_create of the ledger and of the cache does not abort, and
\* from a file that is absent, unreadable or not parseable it returns an
\* empty store with the default max_entries, on which the operations are
\* enabled.
RecoversFromCorruptFile ==
    /\ ledgerOp.op = "load" => ~aborted
    /\ cacheOp.op = "load" => ~aborted
    /\ (ledgerOp.op = "load" /\ log_file \in LogGarbage) =>
          /\ records = << >>
          /\ log_max_entries = DefaultMaxEntries
          /\ ENABLED PersistRecordMove
    /\ (cacheOp.op = "load" /\ cache_file \in CacheGarbage) =>
          /\ entries = EmptyCache
          /\ max_entries = DefaultMaxEntries
          /\ ENABLED PersistStore

\* load_or_create has returned an empty ledger from a file that holds text
\* which is not JSON
LoadedFromGarbage ==
    /\ ledgerOp.op = "load"
    /\ log_file = Junk
    /\ records = << >>
    /\ log_max_entries = DefaultMaxEntries

\* C12: a load from a file a successful save wrote returns the records that
\* were saved, in the same order and with the same statuses, paths and
\* timestamps, and the same max_entries; likewise the entries of the cache.
SaveLoadRoundTrip ==
    /\ (ledgerOp.op = "load" /\ logSaved # NoSnapshot) =>
          /\ records = logSaved.entries
          /\ log_max_entries = logSaved.max_entries
    /\ (cacheOp.op = "load" /\ cacheSaved # NoSnapshot) =>
          /\ entries = cacheSaved.entries
          /\ max_entries = cacheSaved.max_entries

\* a ledger with a Failed and an Undone record and a capacity other than the
\* default was saved and loaded back
LoadedWhatWasSaved ==
    /\ ledgerOp.op = "load"
    /\ logSaved # NoSnapshot
    /\ log_max_entries # DefaultMaxEntries
    /\ Len(records) = 2
    /\ records[1].status = "Failed"
    /\ records[2].status = "Undone"
    /\ records[2].timestamp >= 10

----------------------------------------------------------------------------
(* Properties of the ledger's queries *)

\* C13: get_completed_moves returns exactly the Completed records, each
\* once, in the order they were inserted; no Failed or Undone record is in
\* the answer, and get_completed_count is its length.
CompletedMovesExact ==
    answer.query = "get_completed_moves" =>
        /\ \A k \in DOMAIN answer.moves : answer.moves[k].status = "Completed"
        /\ \A k \in DOMAIN answer.moves : answer.moves[k] = RecordWithId(answer.moves[k].id)
        /\ \A k \in DOMAIN answer.moves : \A l \in DOMAIN answer.moves :
              k < l => answer.moves[k].id < answer.moves[l].id
        /\ \A i \in DOMAIN records :
              records[i].status = "Completed" =>
                  \E k \in DOMAIN answer.moves : answer.moves[k].id = records[i].id
        /\ answer.count = Len(answer.moves)

\* the query has answered with two moves out of a ledger that holds a record
\* of another status between them
TwoCompletedAroundAnother ==
    /\ answer.query = "get_completed_moves"
    /\ Len(answer.moves) = 2
    /\ \E i \in DOMAIN records :
          /\ records[i].status # "Completed"
          /\ answer.moves[1].id < records[i].id
          /\ records[i].id < answer.moves[2].id

\* the Completed record the call is to change: the first whose destination
\* is the path
FirstMatch(path, j) ==
    /\ records[j].status = "Completed"
    /\ records[j].destination_path = path
    /\ \A k \in DOMAIN records :
          (k < j /\ records[k].destination_path = path) => records[k].status # "Completed"

\* C14: mark_as_undone(destination) turns the first Completed record with
\* that destination to Undone and changes nothing else: no other record, no
\* path, no timestamp, not the order; without such a record the ledger stays
\* as it was.
MarkChangesFirstMatchOnly ==
    [][\A m \in QueryPairs :
          MarkAsUndoneCall(m[2]) =>
              /\ Len(records') = Len(records)
              /\ log_max_entries' = log_max_entries
              /\ \A j \in DOMAIN records :
                    IF FirstMatch(m[2], j)
                    THEN records'[j] = [records[j] EXCEPT !.status = "Undone"]
                    ELSE records'[j] = records[j]]_vars

\* mark_as_undone has changed the first of two Completed records of one
\* destination and left the second
SecondMatchLeft ==
    /\ ledgerOp.op = "mark_as_undone"
    /\ \E i \in DOMAIN records : \E j \in DOMAIN records :
          /\ i < j
          /\ records[i].status = "Undone"
          /\ records[i].destination_path = ledgerOp.path
          /\ records[j].status = "Completed"
          /\ records[j].destination_path = ledgerOp.path

\* the Completed records whose destination lies below base_path, in the
\* directory base_path/dir
CompletedIn(dir) ==
    {i \in DOMAIN records :
        /\ records[i].status = "Completed"
        /\ Len(records[i].destination_path) > Len(BasePath)
        /\ Parent(records[i].destination_path) = BasePath \o dir}

\* C18: the keys of get_directory_usage(base_path) are exactly the parent
\* directories, relative to base_path, of the destinations of the Completed
\* records below base_path, each with the number of those records; records
\* of another status or outside base_path count nowhere; the ledger is left
\* as it was.
DirectoryUsageExact ==
    /\ [](answer.query = "get_directory_usage" =>
            /\ \A dir \in DOMAIN answer.usage :
                  /\ CompletedIn(dir) # {}
                  /\ answer.usage[dir] = Cardinality(CompletedIn(dir))
            /\ \A i \in DOMAIN records :
                  (records[i].status = "Completed" /\ UnderBase(records[i].destination_path)
                      /\ records[i].destination_path # BasePath)
                  => \E dir \in DOMAIN answer.usage : i \in CompletedIn(dir))
    /\ [][answer'.query = "get_directory_usage" => UNCHANGED ledgerVars]_vars

\* the query has counted two Completed records in one directory, next to a
\* Completed record outside base_path and a record of another status
UsageCountsTwo ==
    /\ answer.query = "get_directory_usage"
    /\ \E dir \in DOMAIN answer.usage : answer.usage[dir] = 2
    /\ \E i \in DOMAIN records :
          records[i].status = "Completed" /\ ~UnderBase(records[i].destination_path)

----------------------------------------------------------------------------
(* Properties of what the ledger drops *)

\* C15: every capacity eviction removes the Undone record with the smallest
\* timestamp when the ledger holds an Undone record, and otherwise the record
\* with the smallest timestamp of all; so no Completed or Failed record is
\* evicted while an Undone record is in the ledger.
EvictsOldestUndoneFirst ==
    \A k \in DOMAIN dropped :
        dropped[k].why = "capacity" =>
            LET victim == dropped[k].victim
                from == dropped[k].from
                undone == {i \in DOMAIN from : from[i].status = "Undone"}
            IN  IF undone # {}
                THEN /\ victim.status = "Undone"
                     /\ \A i \in undone : ~U64Less(from[i].timestamp, victim.timestamp)
                ELSE \A i \in DOMAIN from : ~U64Less(from[i].timestamp, victim.timestamp)

\* an Undone record was evicted from a ledger that held an older Completed
\* record
UndoneEvictedBeforeOlder ==
    \E k \in DOMAIN dropped :
        /\ dropped[k].why = "capacity"
        /\ dropped[k].victim.status = "Undone"
        /\ \E i \in DOMAIN dropped[k].from :
              /\ dropped[k].from[i].status = "Completed"
              /\ dropped[k].from[i].timestamp < dropped[k].victim.timestamp

\* C16: the expiry of cleanup_old_entries removes no Completed record,
\* whatever its age: every record it removes because of age is Undone or
\* Failed, every record that goes is accounted for by age or by capacity, and
\* an Undone or Failed record older than the threshold does not stay.
ExpiryExemptsCompleted ==
    /\ [](\A k \in DOMAIN dropped :
             dropped[k].why = "age" => dropped[k].victim.status \in {"Undone", "Failed"})
    /\ [][\A a \in Ages :
             log_cleanup_old_entries(a) =>
                 /\ \A i \in DOMAIN records :
                       (\A j \in DOMAIN records' : records'[j].id # records[i].id)
                           => \E k \in DOMAIN dropped' : dropped'[k].victim = records[i]
                 /\ (~aborted' /\ a # U64Max) =>
                       \A j \in DOMAIN records' :
                           (records'[j].status # "Completed" /\ records'[j].timestamp <= now)
                               => now - records'[j].timestamp <= a]_vars

\* a cleanup has removed an Undone record because of its age and kept a
\* Completed record of the same age
CompletedOutlivesUndone ==
    /\ ledgerOp.op = "cleanup"
    /\ \E k \in DOMAIN dropped :
          /\ dropped[k].why = "age"
          /\ dropped[k].victim.status = "Undone"
          /\ \E i \in DOMAIN records :
                /\ records[i].status = "Completed"
                /\ records[i].timestamp = dropped[k].victim.timestamp

----------------------------------------------------------------------------
(* Properties of duplicate detection *)

Hashed(p) == compute_file_hash(p).ok

SameHash(p, q) ==
    Hashed(p) /\ Hashed(q) /\ compute_file_hash(p).hash = compute_file_hash(q).hash

\* the groups of a result that hold path p
GroupsWith(groups, p) == {g \in DOMAIN groups : p \in Range(groups[g])}

\* C19: what find_duplicates returns is a partition by hash: every group has
\* at least two members, all of them input paths; two entries of the input are
\* in one group exactly when both were hashed and their hashes are equal; a
\* hashed path whose hash another entry shares is in exactly one group; a path
\* that failed to hash is in no group.
FindDuplicatesPartitions ==
    dupOp.op = "find_duplicates" =>
        LET paths == dupOp.paths
            groups == dupOp.groups
        IN  /\ \A g \in DOMAIN groups :
                   Len(groups[g]) >= 2 /\ Range(groups[g]) \subseteq Range(paths)
            /\ \A i, j \in DOMAIN paths :
                   i # j => ((GroupsWith(groups, paths[i]) \cap GroupsWith(groups, paths[j]) # {})
                                <=> SameHash(paths[i], paths[j]))
            /\ \A i, j \in DOMAIN paths :
                   (i # j /\ SameHash(paths[i], paths[j]))
                       => Cardinality(GroupsWith(groups, paths[i])) = 1
            /\ \A p \in Range(paths) : ~Hashed(p) => GroupsWith(groups, p) = {}

\* C19 witness: a call that returned a group while one path of its input could
\* not be hashed.
GroupedBesideUnhashable ==
    /\ dupOp.op = "find_duplicates"
    /\ Len(dupOp.groups) = 1
    /\ \E p \in Range(dupOp.paths) : ~Hashed(p)
    /\ \E p \in Range(dupOp.paths) : Hashed(p)

\* C20: from the scan of delete_duplicates on, the first member of every group
\* is on disk with the content it had; when the call has returned, remove_file
\* has been called on every other member, and every content a group had is
\* still the content of some file.
KeepsFirstOfEachGroup ==
    (dupOp.op = "delete_duplicates" /\ dupOp.result = "Ok") =>
        \A g \in DOMAIN dupOp.groups :
            LET group == dupOp.groups[g]
            IN  /\ files0[group[1]] # 0
                /\ files[group[1]] = files0[group[1]]
                /\ \A k \in 2..Len(group) : files0[group[k]] = files0[group[1]]
                /\ \E p \in DupPaths : files[p] = files0[group[1]]
                /\ dupPc = "done" =>
                       \A k \in 2..Len(group) :
                           \E a \in DOMAIN attempted : attempted[a].file = group[k]

\* C20 witness: the call returned after a group of three, of which one removal
\* succeeded and one failed.
DeletedAroundFailure ==
    /\ dupOp.op = "delete_duplicates"
    /\ dupPc = "done"
    /\ \E g \in DOMAIN dupOp.groups : Len(dupOp.groups[g]) = 3
    /\ \E a, b \in DOMAIN attempted : attempted[a].removed /\ ~attempted[b].removed

\* the remove_file calls of the loop that ended as given
Removals(ok) == {a \in DOMAIN attempted : attempted[a].removed = ok}

\* C21: when delete_duplicates has returned Ok, remove_file has been called on
\* every file of the plan whatever the earlier calls returned, error_count is
\* the number of calls that failed and total_duplicates the number that
\* succeeded.
DeletionCountsFailures ==
    (dupOp.op = "delete_duplicates" /\ dupOp.result = "Ok" /\ dupPc = "done") =>
        /\ [a \in DOMAIN attempted |-> attempted[a].file] = DeletionPlan(dupOp.groups)
        /\ dupOp.summary.error_count = Cardinality(Removals(FALSE))
        /\ dupOp.summary.total_duplicates = Cardinality(Removals(TRUE))

\* C28: with max_entries >= 1 and no record stamped later than the clock
\* reads, when record_move or record_failed_move has returned the record it
\* appended is the last of the ledger, and the record the call evicted is an
\* earlier one.
RecordedMoveStaysLast ==
    (/\ ledgerOp.op \in {"record_move", "record_failed_move"}
     /\ log_max_entries >= 1
     /\ \A i \in DOMAIN records : records[i].timestamp <= now) =>
        /\ records # << >>
        /\ records[Len(records)].id = ledgerOp.id
        /\ records[Len(records)].timestamp = now
        /\ Len(dropped) <= 1
        /\ \A k \in DOMAIN dropped : dropped[k].victim.id < ledgerOp.id

\* C28 witness: a record_move evicted a record that carried the timestamp of
\* the record it appended.
EvictedATie ==
    /\ ledgerOp.op = "record_move"
    /\ log_max_entries >= 1
    /\ Len(dropped) = 1
    /\ dropped[1].victim.timestamp = now
    /\ dropped[1].victim.status # "Undone"
    /\ records[Len(records)].id = ledgerOp.id

----------------------------------------------------------------------------
(* Properties of move execution *)

\* the call appended the record (source, target, status) and, when that took
\* the ledger over max_entries, evicted one record
AppendedOne(source, target, status) ==
    LET pushed == Append(records, NewRecord(source, target, status))
    IN  /\ nextId' = nextId + 1
        /\ IF Len(pushed) <= log_max_entries THEN records' = pushed
           ELSE \E i \in DOMAIN pushed : records' = RemoveAt(pushed, i)

\* C29: a pass of the mover's loop that moved the file appends one Completed
\* record (source, target); a pass whose move failed appends one Failed
\* record; a pass whose source is missing or no regular file, or whose target
\* directory could not be created, leaves the ledger alone; and when the run
\* has ended without an eviction, the ledger holds as many Completed records
\* as the summary counts moved files.
MoverRecordsEveryAttempt ==
    /\ []((movePc = "done" /\ Len(records) = nextId - 1) =>
             moveSummary.moved_count =
                 Cardinality({i \in DOMAIN records : records[i].status = "Completed"}))
    /\ [][(movePc = "loop" /\ Len(moveLog') = Len(moveLog) + 1) =>
             LET item == Head(planItems)
                 source == join(BasePath, item.filename)
                 target == build_target_path(BasePath, item.category, item.sub_category,
                                             item.filename)
                 mkdir_failed == moveLog'[Len(moveLog')].result = "mkdir_failed"
                 was_file == source \in FilePaths /\ disk[source] # 0
                 file_moved == /\ was_file
                               /\ target \in FilePaths
                               /\ disk'[source] = 0
                               /\ disk'[target] = disk[source]
             IN  IF mkdir_failed \/ ~was_file THEN UNCHANGED <<records, nextId>>
                 ELSE IF file_moved THEN AppendedOne(source, target, "Completed")
                 ELSE AppendedOne(source, target, "Failed")]_vars

\* C29 witness: a run of three items has ended: one file was moved, one move
\* failed and one item had no file at its source; the ledger holds the two
\* records.
MovedFailedAndMissing ==
    /\ movePc = "done"
    /\ Len(moveLog) = 3
    /\ \E a, b, c \in DOMAIN moveLog :
          /\ moveLog[a].result = "moved"
          /\ moveLog[b].result = "move_failed"
          /\ moveLog[c].result \in {"missing", "not_a_file"}
    /\ Len(records) = 2
    /\ moveSummary.moved_count = 1

----------------------------------------------------------------------------
(* Properties of a process run *)

Did(ev, store) == \E i \in DOMAIN runLog : runLog[i].ev = ev /\ runLog[i].store = store

\* C22: an organise run that has loaded the cache and the ledger attempts
\* to save both of them before it ends, on whichever path it ends
PersistAtShutdown ==
    (runPc = "returned" /\ Did("load", "cache") /\ Did("load", "log"))
        => (Did("save", "cache") /\ Did("save", "log"))

\* the handler reports a failed save with a warning, goes on to save the
\* ledger after a failed save of the cache, has tried to save the cache
\* before a failed save of the ledger, and returns Ok
FailedSaveIsReported ==
    \A i \in DOMAIN runLog :
        (runLog[i].ev = "save" /\ ~runLog[i].ok) =>
            /\ i < Len(runLog)
            /\ runLog[i + 1] = Ev("warning", runLog[i].store, FALSE)
            /\ runLog[i].store = "cache" =>
                  \/ runPc = "org_save_log"
                  \/ \E j \in DOMAIN runLog :
                        j > i /\ runLog[j].ev = "save" /\ runLog[j].store = "log"
            /\ (runLog[i].store = "log" /\ Did("load", "cache")) =>
                  \E j \in DOMAIN runLog :
                      j < i /\ runLog[j].ev = "save" /\ runLog[j].store = "cache"
            /\ runPc = "returned" => runLog[Len(runLog)] = Return(TRUE)

\* a step that attempts a save
SaveStep ==
    /\ Len(runLog') > Len(runLog)
    /\ runLog'[Len(runLog) + 1].ev = "save"

\* C23: a failed save of the cache or of the ledger is reported with a
\* warning, the other store is still saved, the handler returns Ok, and no
\* save, failed or not, changes the cache or the ledger in memory
SaveFailureIsNotFatal ==
    /\ []FailedSaveIsReported
    /\ [][SaveStep => /\ entries' = entries
                      /\ max_entries' = max_entries
                      /\ records' = records
                      /\ log_max_entries' = log_max_entries]_vars

\* C23 witness: an organise run returned after the save of the cache
\* failed, with a changed cache in memory, and the save of the ledger failed
\* as well
ReturnedAfterFailedSaves ==
    /\ runPc = "returned"
    /\ \E i \in DOMAIN runLog : runLog[i] = Ev("save", "cache", FALSE)
    /\ \E i \in DOMAIN runLog : runLog[i] = Ev("save", "log", FALSE)
    /\ runLog[Len(runLog)] = Return(TRUE)
    /\ entries # EmptyCache
    /\ entries # load_or_create_at(cache_file).entries
    /\ records # << >>

----------------------------------------------------------------------------
(* Properties of the undo's directory cleanup *)

\* the step of cleanup_empty_directories
CleanupDirectoriesStep == undoPc = "loop" /\ undoPc' = "done"

\* C32: a directory that goes away held no file when it went; the cleanup
\* step, whether its removals fail or not, ends the undo normally and
\* leaves the files and the restored, skipped and failed counts alone
CleanupRemovesOnlyEmptyDirectories ==
    [][/\ \A d \in dirs \ dirs' : \A p \in FilePaths : Parent(p) = d => disk[p] = 0
       /\ CleanupDirectoriesStep => /\ summary' = summary
                                    /\ disk' = disk
                                    /\ aborted' = aborted]_vars

\* C32 witness: the undo skipped one move and failed on another; the
\* directory that still holds a file is there, and so is an empty directory
\* of the ledger, whose removal failed
KeptFullAndFailedOnEmpty ==
    /\ undoPc = "done"
    /\ summary.skipped_count = 1 /\ summary.failed_count = 1
    /\ disk[Dst1] # 0 /\ Parent(Dst1) \in dirs
    /\ disk[Dst2] = 0 /\ Parent(Dst2) \in dirs
    /\ Parent(Dst2) \in DirectoryUsageKeys(records)

----------------------------------------------------------------------------
(* Properties of cleanup under a clock that went back *)

\* C33: cleanup_old_entries of the cache and of the ledger never aborts,
\* and an entry or record stamped later than the current time stays when
\* the store is within its capacity
CleanupToleratesFutureTimestamps ==
    /\ [](~aborted)
    /\ [][/\ \A k \in DOMAIN entries :
                (U64Less(now, entries[k].timestamp)
                 /\ Cardinality(DOMAIN entries) <= max_entries)
                    => (k \in DOMAIN entries' /\ entries'[k] = entries[k])
          /\ \A i \in DOMAIN records :
                (U64Less(now, records[i].timestamp) /\ Len(records) <= log_max_entries)
                    => \E j \in DOMAIN records' : records'[j] = records[i]]_vars

----------------------------------------------------------------------------
(* Properties of the duplicate summary *)

\* the lengths, before their removal, of the files the first n calls removed
RECURSIVE SizeRemoved(_)
SizeRemoved(n) ==
    IF n = 0 THEN 0
    ELSE SizeRemoved(n - 1) + (IF attempted[n].removed THEN attempted[n].len ELSE 0)

\* C39: when delete_duplicates has returned Ok, total_size_saved is the sum
\* of the lengths of the files it removed
SizeSavedIsSizeRemoved ==
    (dupOp.op = "delete_duplicates" /\ dupOp.result = "Ok" /\ dupPc = "done") =>
        dupOp.summary.total_size_saved = SizeRemoved(Len(attempted))

----------------------------------------------------------------------------
(* Properties of the retry loop *)

\* a send() that came back with an error the loop retries
RetryableFailure(reply) ==
    \/ reply.kind = "send_err"
    \/ reply.kind = "response"
       /\ reply.error \in {"RateLimitExceeded", "ServiceUnavailable", "Timeout",
                             "NetworkError", "InternalError"}

\* at most MAX_RETRIES requests are made; a success or an error that is
\* not retryable is the last request and is what the call returns at once;
\* an error that is retryable is returned when it is that of the third request
RetryIsBounded ==
    /\ Len(retryLog) <= MAX_RETRIES
    /\ \A i \in DOMAIN retryLog :
          LET reply == retryLog[i].outcome
          IN  /\ ~RetryableFailure(reply) =>
                    /\ i = Len(retryLog)
                    /\ retryPc = "returned"
                    /\ retryResult = [ok |-> reply.kind = "success",
                                      error |-> reply.error]
              /\ (RetryableFailure(reply) /\ i = MAX_RETRIES) =>
                    /\ retryPc = "returned"
                    /\ retryResult = [ok |-> FALSE, error |-> reply.error]
              /\ (RetryableFailure(reply) /\ i < MAX_RETRIES) =>
                    (i = Len(retryLog) => retryPc \in {"sleeping", "loop"})
    /\ retryPc = "returned" => retryLog # << >>

\* C38: send_request_with_retry makes at most MAX_RETRIES requests and
\* returns: the first success, the first error that is not retryable, or
\* the error of the third request
BoundedRetry ==
    /\ []RetryIsBounded
    /\ <>(retryPc = "returned")

\* C38 witness: the call returned the error of its third request after two
\* retries
GaveUpAfterThree ==
    /\ retryPc = "returned"
    /\ Len(retryLog) = MAX_RETRIES
    /\ retryResult = [ok |-> FALSE, error |-> "ServiceUnavailable"]
    /\ retryLog[1].outcome.kind = "send_err"
    /\ retryLog[2].outcome.error = "RateLimitExceeded"

----------------------------------------------------------------------------
(* Properties of the deep inspection *)

\* the tasks whose sub-category request has been sent and has not completed
InFlight == {i \in DOMAIN tasks : tasks[i].pc = "requesting"}

\* C36: at most max_concurrent sub-category requests are in flight
InspectionRespectsLimit == Cardinality(InFlight) <= max_concurrent

\* C36 witness: as many requests as permits are in flight and a third text
\* file waits for a permit
LimitReachedWithOneWaiting ==
    /\ max_concurrent = 2
    /\ Cardinality(InFlight) = 2
    /\ \E i \in DOMAIN tasks : tasks[i].pc = "acquiring"

\* C37: with every request completing, the deep inspection ends and the
\* run goes on to the move phase, whatever max_concurrent is
InspectionTerminates == (inspectPc = "joining") ~> (inspectPc = "moving")

----------------------------------------------------------------------------
(* Properties of the confirmed deletion *)

\* the file is in a group the preview printed
Listed(file) ==
    \E g \in DOMAIN listed.groups : file \in Range(listed.groups[g])

\* C35: every file delete_duplicates removes after the confirmation was
\* printed by the preview, and the file it keeps of a group was printed in
\* one group with the files it removes of that group
DeletionMatchesPreview ==
    (execPc \in {"deleting", "returned"} /\ dupOp.op = "delete_duplicates") =>
        /\ \A a \in DOMAIN attempted : attempted[a].removed => Listed(attempted[a].file)
        /\ \A g \in DOMAIN dupOp.groups :
              (\E a \in DOMAIN attempted :
                   attempted[a].removed /\ attempted[a].file \in Range(dupOp.groups[g]))
              => \E l \in DOMAIN listed.groups :
                    Range(dupOp.groups[g]) \subseteq Range(listed.groups[l])

----------------------------------------------------------------------------
(* Properties of two processes on one store file *)

\* C34: when no save is under way, the file is the UndoLog of the process
\* whose save returned last, with nothing of the other process's changes
LastWriterWins ==
    (saveOrder # << >> /\ \A p \in Procs : procs[p].pc # "writing") =>
        log_file = Text(log_to_json(procs[saveOrder[Len(saveOrder)]].log))

============================================================================
